---- MODULE Spec2Model ----
(***************************************************************************)
(* web-ifc loader (src/src/wasm/include/web-ifc.h, class IfcLoader):       *)
(* the token tape, the line table with its handle and type indices, the    *)
(* write path's index step UpdateLineTape, the lookups, and the argument   *)
(* cursor (MoveToArgumentOffset, GetSetArgument).                          *)
(*                                                                         *)
(* C++ vectors are 0-based; they are modelled as TLA+ sequences and read   *)
(* through At(v, i) == v[i + 1].  Tape offsets are 0-based byte offsets.   *)
(***************************************************************************)
EXTENDS Integers, Sequences, FiniteSets, TLC

VARIABLES
    tape,             \* _tape: the bytes pushed so far
    readOffset,       \* _tape's read cursor
    lines,            \* _metaData.lines
    expressIDToLine,  \* _metaData.expressIDToLine
    ifcTypeToLineID,  \* _metaData.ifcTypeToLineID
    fault,            \* TRUE once the process has aborted or crashed
    log,              \* history: the lines loaded and written, in order
    op,               \* the most recent operation and its arguments
    ret,              \* what that operation returned
    relVoids,             \* _metaData._relVoids
    relAggregates,        \* _metaData._relAggregates
    styledItems,          \* _metaData._styledItems
    relMaterials,         \* _metaData._relMaterials
    materialDefinitions,  \* _metaData._materialDefinitions
    linearScalingFactor,  \* _metaData.linearScalingFactor, as a power of ten
    open,             \* _open
    tapeBlocks,       \* 2^32-byte blocks on the tape ahead of the bytes in tape
    api               \* IfcAPI: the virtual file system and a running WriteLine

(* The relationship maps and the unit scale, which only LoadFile writes.   *)
rel == <<relVoids, relAggregates, styledItems, relMaterials,
         materialDefinitions, linearScalingFactor>>

vars == <<tape, readOffset, lines, expressIDToLine, ifcTypeToLineID,
          fault, log, op, ret, rel, open, tapeBlocks, api>>

(* The state of the loader, which the script side of IfcAPI does not hold. *)
loader == <<tape, readOffset, lines, expressIDToLine, ifcTypeToLineID,
            fault, log, op, ret, rel, open, tapeBlocks>>

----------------------------------------------------------------------------
(* Bounds of the model.                                                    *)

MaxHandle == 2
MaxLines == 3
MaxArgs == 2
MaxArgIndex == 3
MaxRelLines == 2
MaxBlocks == 1
MaxUnits == 2
MaxDumpLines == 2

(* Number of values of a byte (uint8_t, char).  The 32-bit quantities of   *)
(* the code (handles, LineIDs, tape offsets) stay far below 2^32 within    *)
(* the bounds above, so their arithmetic is modelled without wrap-around.  *)
U8 == 256

----------------------------------------------------------------------------
(* IfcTokenType: the tag byte that starts every token on the tape.         *)

UNKNOWN == 0
STRING_ == 1   \* IfcTokenType::STRING (STRING is a TLA+ keyword)
LABEL == 2
ENUM == 3
REAL == 4
REF == 5
EMPTY == 6
SET_BEGIN == 7
SET_END == 8
LINE_END == 9

At(v, i) == v[i + 1]

Min(a, b) == IF a < b THEN a ELSE b

Range(s) == {s[k] : k \in 1..Len(s)}

(* The bytes of tape t in [from, to), clipped to the tape.                 *)
Slice(t, from, to) ==
    IF from >= Min(to, Len(t)) THEN <<>> ELSE SubSeq(t, from + 1, Min(to, Len(t)))

(* A 64-bit offset high * 2^32 + low, kept as its two 32-bit halves.  The  *)
(* tape is blocks blocks of 2^32 bytes of pushed data followed by the      *)
(* bytes of t; every length of t stays below 2^32.                         *)
Offset64(high, low) == [high |-> high, low |-> low]

(* _tape.GetTotalSize(), a uint64_t.                                       *)
GetTotalSize(blocks, t) == Offset64(blocks, Len(t))

(* A uint64_t passed for a uint32_t parameter: the value modulo 2^32.      *)
ToUint32(o) == o.low

(* A uint32_t passed on to the tape as an offset: the high half is 0.      *)
FromUint32(n) == Offset64(0, n)

(* The data pushed ahead of the lines: bytes of value 0.                   *)
BulkByte == UNKNOWN

(* _tape.Copy(startOffset, endOffset, dest): the bytes from a up to b.     *)
(* With pushed blocks ahead, offsets with high half 0 lie in the first     *)
(* block.                                                                  *)
TapeCopy(blocks, t, a, b) ==
    IF a.high = blocks /\ b.high = blocks THEN Slice(t, a.low, b.low)
    ELSE IF a.high < blocks /\ b.high = a.high /\ a.low < b.low
    THEN [i \in 1..(b.low - a.low) |-> BulkByte]
    ELSE <<>>

----------------------------------------------------------------------------
(* Argument values of a line, as the write path and the tokenizer put them *)
(* on the tape: a scalar token (tag, payload bytes) or a set of values.    *)
(* Every value is a record of the same shape, so that values compare.      *)

Scalar(tag, bytes) == [tag |-> tag, bytes |-> bytes, elems |-> <<>>]

SetOf(elems) == [tag |-> SET_BEGIN, bytes |-> <<>>, elems |-> elems]

(* uint32_t payload, little endian.                                        *)
U32Bytes(v) ==
    << v % U8, (v \div U8) % U8, (v \div (U8 * U8)) % U8, (v \div (U8 * U8 * U8)) % U8 >>

U32At(t, o) ==
    At(t, o) + U8 * At(t, o + 1) + U8 * U8 * At(t, o + 2) + U8 * U8 * U8 * At(t, o + 3)

RefArg(v) == Scalar(REF, U32Bytes(v))

(* u8 length, then the bytes.                                              *)
StrArg(chars) == Scalar(STRING_, <<Len(chars)>> \o chars)

EnumArg(chars) == Scalar(ENUM, <<Len(chars)>> \o chars)

LabelArg(chars) == Scalar(LABEL, <<Len(chars)>> \o chars)

(* f64 payload: the IEEE-754 bytes of 1.0.                                 *)
RealArg == Scalar(REAL, <<0, 0, 0, 0, 0, 0, 240, 63>>)

EmptyArg == Scalar(EMPTY, <<>>)

UnknownArg == Scalar(UNKNOWN, <<>>)

RECURSIVE Emit(_)
(* The tokens of one value: tag byte and payload; a set is SET_BEGIN, its  *)
(* elements, SET_END.                                                      *)
Emit(a) ==
    IF a.tag = SET_BEGIN
    THEN LET RECURSIVE All(_)
             All(es) == IF es = <<>> THEN <<>> ELSE Emit(Head(es)) \o All(Tail(es))
         IN <<SET_BEGIN>> \o All(a.elems) \o <<SET_END>>
    ELSE <<a.tag>> \o a.bytes

(* The schema name of a type code, as the LABEL of a written line: one     *)
(* upper-case letter per code here.                                        *)
TypeLabel(type) == LabelArg(<<65 + type>>)

(* The tokens of the line  #expressID = LABEL(args);                       *)
LineTokens(expressID, type, args) ==
    Emit(RefArg(expressID)) \o Emit(TypeLabel(type)) \o Emit(SetOf(args)) \o <<LINE_END>>

(* Offset of the line's outer SET_BEGIN, for a line that starts at start.  *)
SetBeginOf(start, type) == start + Len(Emit(RefArg(0))) + Len(Emit(TypeLabel(type)))

----------------------------------------------------------------------------
(* Inputs drawn by the specifications.                                     *)

Handles == 0..MaxHandle

Types == {0, 1}

(* Type codes of ifc2x4.h that the loader's passes select.  Only their     *)
(* being distinct matters; 0 and 1 stand for every other entity type.      *)
IFCRELVOIDSELEMENT == 2
IFCRELAGGREGATES == 3
IFCSTYLEDITEM == 4
IFCRELASSOCIATESMATERIAL == 5
IFCMATERIALDEFINITIONREPRESENTATION == 6
IFCPROJECT == 7
IFCSIUNIT == 8

(* The keys of ifcTypeToLineID.                                            *)
IfcTypes == Types \cup {IFCRELVOIDSELEMENT, IFCRELAGGREGATES, IFCSTYLEDITEM,
                        IFCRELASSOCIATESMATERIAL, IFCMATERIALDEFINITIONREPRESENTATION,
                        IFCPROJECT, IFCSIUNIT}

(* Lines written and loaded while the indices are exercised: a type code   *)
(* with an argument list.                                                  *)
IndexLines ==
    { [type |-> 0, args |-> <<>>],
      [type |-> 1, args |-> <<SetOf(<<RefArg(1)>>), EmptyArg>>] }

(* Handles looked up: written or not, inside or beyond the handle table.   *)
LookupHandles == 0..(MaxHandle + 1)

----------------------------------------------------------------------------
(* IfcMetaData: lines, expressIDToLine, ifcTypeToLineID.                   *)

IfcLine(expressID, lineIndex, ifcType, tapeOffset, tapeEnd) ==
    [expressID |-> expressID, lineIndex |-> lineIndex, ifcType |-> ifcType,
     tapeOffset |-> tapeOffset, tapeEnd |-> tapeEnd]

(* What a read of memory outside the line table is taken to yield when it  *)
(* does not crash.                                                         *)
NoLine == IfcLine(0, 0, 0, 0, 0)

EmptyMeta ==
    [lines |-> <<>>, expressIDToLine |-> <<>>,
     ifcTypeToLineID |-> [t \in IfcTypes |-> <<>>], fault |-> FALSE]

Meta ==
    [lines |-> lines, expressIDToLine |-> expressIDToLine,
     ifcTypeToLineID |-> ifcTypeToLineID, fault |-> fault]

(* std::vector<uint32_t>::resize(n): truncates, or appends zeros.          *)
Resize(v, n) ==
    IF n <= Len(v) THEN SubSeq(v, 1, n) ELSE v \o [k \in 1..(n - Len(v)) |-> 0]

(* v[i] = x for i < v.size().                                              *)
Store(v, i, x) == [v EXCEPT ![i + 1] = x]

(* Mutant: the LineID is taken after the emplace_back.                     *)
NewLineIDAfterAppend(md) == Len(md.lines) + 1

(* int lineID = _metaData.lines.size(), taken before the emplace_back.     *)
NewLineID(md) == Len(md.lines)

(* Mutant: a rewrite also stores the new type code in the record.          *)
SetOffsetsAndType(line, type, start, end) ==
    [line EXCEPT !.ifcType = type, !.tapeOffset = start, !.tapeEnd = end]

(* Mutant: tapeEnd receives start.                                         *)
SetOffsetsEndFromStart(line, type, start, end) ==
    [line EXCEPT !.tapeOffset = start, !.tapeEnd = start]

(* The tail of UpdateLineTape: only the two offsets of the record change.  *)
SetOffsets(line, type, start, end) ==
    [line EXCEPT !.tapeOffset = start, !.tapeEnd = end]

(* IfcLoader::UpdateLineTape.  A handle counts as new when it lies outside *)
(* the table or its entry is 0.  The store expressIDToLine[expressID] is   *)
(* out of bounds when expressID >= expressID * 2, that is for expressID 0: *)
(* undefined behaviour, which either crashes (crash) or lands outside the  *)
(* vector and is read back by the next statement.                          *)
UpdateLineTape(md, expressID, type, start, end, crash) ==
    LET isNew == \/ expressID >= Len(md.expressIDToLine)
                 \/ At(md.expressIDToLine, expressID) = 0
        resized == Resize(md.expressIDToLine, expressID * 2)
        inside == expressID < Len(resized)
        newID == NewLineID(md)
        table == IF ~isNew THEN md.expressIDToLine
                 ELSE IF inside THEN Store(resized, expressID, newID)
                 ELSE resized
        lineID == IF isNew THEN newID ELSE At(md.expressIDToLine, expressID)
        lines1 == IF isNew
                  THEN Append(md.lines, IfcLine(expressID, newID, type, 0, 0))
                  ELSE md.lines
        index == IF isNew
                 THEN [md.ifcTypeToLineID EXCEPT ![type] = Append(@, newID)]
                 ELSE md.ifcTypeToLineID
    IN IF isNew /\ ~inside /\ crash
       THEN [md EXCEPT !.fault = TRUE]
       ELSE [lines |-> IF lineID < Len(lines1)
                       THEN [lines1 EXCEPT ![lineID + 1] = SetOffsets(@, type, start, end)]
                       ELSE lines1,
             expressIDToLine |-> table,
             ifcTypeToLineID |-> index,
             fault |-> md.fault]

(* The parser's index step for one tokenized line: append the record, grow *)
(* the handle table as needed, append the LineID to the type index.        *)
ParseLine(md, expressID, type, tapeOffset, tapeEnd) ==
    LET lineID == Len(md.lines)
        grown == IF expressID < Len(md.expressIDToLine) THEN md.expressIDToLine
                 ELSE Resize(md.expressIDToLine, expressID + 1)
    IN [lines |-> Append(md.lines, IfcLine(expressID, lineID, type, tapeOffset, tapeEnd)),
        expressIDToLine |-> Store(grown, expressID, lineID),
        ifcTypeToLineID |-> [md.ifcTypeToLineID EXCEPT ![type] = Append(@, lineID)],
        fault |-> md.fault]

(* IfcLoader::ExpressIDToLineID: an unchecked read; outside the table it   *)
(* is undefined behaviour and yields junk (or crashes, see the callers).   *)
ExpressIDToLineID(md, expressID, junk) ==
    IF expressID < Len(md.expressIDToLine) THEN At(md.expressIDToLine, expressID) ELSE junk

(* IfcLoader::GetLine: an unchecked reference into lines.                  *)
GetLine(md, lineID) ==
    IF lineID < Len(md.lines) THEN At(md.lines, lineID) ELSE NoLine

(* IfcLoader::IsOpen: return _open, the field of the loader.  No member    *)
(* of IfcLoader assigns _open after its initializer.                       *)
IsOpen(isOpen) == isOpen

(* IfcLoader::GetExpressIDsWithType.                                       *)
GetExpressIDsWithType(md, type) ==
    LET list == md.ifcTypeToLineID[type]
    IN [k \in 1..Len(list) |-> GetLine(md, list[k]).expressID]

----------------------------------------------------------------------------
(* The argument cursor.  A scan returns where the cursor stops and how it  *)
(* ended: "ok" (a normal return), "abort" (a failed assert) or "oob" (a    *)
(* read past the end of the tape).  nd says whether the build defines      *)
(* NDEBUG, which compiles assert() out.                                    *)

Result(outcome, cursor, offsets) ==
    [outcome |-> outcome, cursor |-> cursor, offsets |-> offsets]

(* _tape.Read<T>() of size bytes at pos stays on the tape.                 *)
CanRead(t, pos, size) == pos + size <= Len(t)

RECURSIVE MoveLoop(_, _, _, _, _, _)
(* The while (true) loop of MoveToArgumentOffset, one token per call.      *)
MoveLoop(t, pos, movedOver, setDepth, argumentIndex, nd) ==
    LET moved == IF setDepth = 1 THEN movedOver + 1 ELSE movedOver
    IN IF setDepth = 1 /\ moved = argumentIndex THEN Result("ok", pos, <<>>)
       ELSE IF ~CanRead(t, pos, 1) THEN Result("oob", pos, <<>>)
       ELSE LET tok == At(t, pos)
            IN CASE tok = LINE_END ->
                      IF nd THEN MoveLoop(t, pos + 1, moved, setDepth, argumentIndex, nd)
                      ELSE Result("abort", pos + 1, <<>>)
                 [] tok \in {UNKNOWN, EMPTY} ->
                      MoveLoop(t, pos + 1, moved, setDepth, argumentIndex, nd)
                 [] tok = SET_BEGIN ->
                      MoveLoop(t, pos + 1, moved, setDepth + 1, argumentIndex, nd)
                 [] tok = SET_END ->
                      IF setDepth - 1 = 0 THEN Result("ok", pos + 1, <<>>)
                      ELSE MoveLoop(t, pos + 1, moved, setDepth - 1, argumentIndex, nd)
                 [] tok \in {STRING_, ENUM, LABEL} ->
                      IF ~CanRead(t, pos + 1, 1) THEN Result("oob", pos + 1, <<>>)
                      ELSE MoveLoop(t, pos + 2 + At(t, pos + 1), moved, setDepth,
                                    argumentIndex, nd)
                 [] tok = REF ->
                      IF ~CanRead(t, pos + 1, 4) THEN Result("oob", pos + 1, <<>>)
                      ELSE MoveLoop(t, pos + 5, moved, setDepth, argumentIndex, nd)
                 [] tok = REAL ->
                      IF ~CanRead(t, pos + 1, 8) THEN Result("oob", pos + 1, <<>>)
                      ELSE MoveLoop(t, pos + 9, moved, setDepth, argumentIndex, nd)
                 [] OTHER ->
                      MoveLoop(t, pos + 1, moved, setDepth, argumentIndex, nd)

(* Mutant: movedOver starts at 0 instead of -1.                            *)
MoveToArgumentOffsetFromZero(t, line, argumentIndex, nd) ==
    MoveLoop(t, line.tapeOffset, 0, 0, argumentIndex, nd)

(* IfcLoader::MoveToArgumentOffset(line, argumentIndex) on tape t.         *)
MoveToArgumentOffset(t, line, argumentIndex, nd) ==
    MoveLoop(t, line.tapeOffset, -1, 0, argumentIndex, nd)

RECURSIVE SetLoop(_, _, _, _, _)
(* The while (true) loop of GetSetArgument, one token per call.            *)
SetLoop(t, pos, depth, tapeOffsets, nd) ==
    IF ~CanRead(t, pos, 1) THEN Result("oob", pos, tapeOffsets)
    ELSE
    LET tok == At(t, pos)
        offset == pos
        pushed == Append(tapeOffsets, offset)
        Continue(p, d, offs) == IF d = 0 THEN Result("ok", p, offs) ELSE SetLoop(t, p, d, offs, nd)
    IN CASE tok = SET_BEGIN -> Continue(pos + 1, depth + 1, tapeOffsets)
         [] tok = SET_END -> Continue(pos + 1, depth - 1, tapeOffsets)
         [] tok = REAL ->
              IF ~CanRead(t, pos + 1, 8) THEN Result("oob", pos + 1, pushed)
              ELSE Continue(pos + 9, depth, pushed)
         [] tok = REF ->
              IF ~CanRead(t, pos + 1, 4) THEN Result("oob", pos + 1, pushed)
              ELSE Continue(pos + 5, depth, pushed)
         [] tok \in {STRING_, LABEL} ->
              IF ~CanRead(t, pos + 1, 1) THEN Result("oob", pos + 1, pushed)
              ELSE Continue(pos + 2 + At(t, pos + 1), depth, pushed)
         [] OTHER ->
              IF nd THEN Continue(pos + 1, depth, pushed)
              ELSE Result("abort", pos + 1, pushed)

(* IfcLoader::GetSetArgument() with the read cursor at pos.                *)
GetSetArgument(t, pos, nd) ==
    IF ~CanRead(t, pos, 1) THEN Result("oob", pos, <<>>)
    ELSE SetLoop(t, pos + 1, 1, <<>>, nd)

----------------------------------------------------------------------------
(* The typed reads at the cursor.  None of them checks the tag it skips.   *)

Read(outcome, cursor, value) == [outcome |-> outcome, cursor |-> cursor, value |-> value]

(* GetRefArgument(): one char, then a uint32_t.                            *)
GetRefArgument(t, pos) ==
    IF ~CanRead(t, pos, 5) THEN Read("oob", pos, 0)
    ELSE Read("ok", pos + 5, U32At(t, pos + 1))

(* GetStringArgument(): one char, then ReadStringView: a u8 length and     *)
(* that many bytes.                                                        *)
GetStringArgument(t, pos) ==
    IF ~CanRead(t, pos, 2) THEN Read("oob", pos, <<>>)
    ELSE LET len == At(t, pos + 1)
         IN IF ~CanRead(t, pos + 2, len) THEN Read("oob", pos + 2, <<>>)
            ELSE Read("ok", pos + 2 + len, Slice(t, pos + 2, pos + 2 + len))

(* GetTokenType(): one char.                                               *)
GetTokenType(t, pos) ==
    IF ~CanRead(t, pos, 1) THEN Read("oob", pos, UNKNOWN)
    ELSE Read("ok", pos + 1, At(t, pos))

(* Mutant: the cursor stays where it is.                                   *)
ReverseNoStep(pos) == pos

(* Reverse(): the cursor steps back over one tag byte.                     *)
Reverse(pos) == pos - 1

RECURSIVE ReadRefs(_, _, _, _)
(* for (auto& o : offsets) GetRefArgument(o): the values read, in order.   *)
ReadRefs(t, offsets, cursor, values) ==
    IF offsets = <<>> THEN Read("ok", cursor, values)
    ELSE LET r == GetRefArgument(t, Head(offsets))
         IN IF r.outcome # "ok" THEN Read(r.outcome, r.cursor, values)
            ELSE ReadRefs(t, Tail(offsets), r.cursor, Append(values, r.value))

(* std::unordered_map: a function on the keys inserted so far.  m[k] in    *)
(* the code inserts an empty vector for a key that is not there.           *)
EmptyMap == <<>>

(* Mutant: the value goes to the front of the vector.                      *)
MapPushFront(m, k, v) ==
    IF k \in DOMAIN m THEN [m EXCEPT ![k] = <<v>> \o @] ELSE m @@ (k :> <<v>>)

MapPush(m, k, v) ==
    IF k \in DOMAIN m THEN [m EXCEPT ![k] = Append(@, v)] ELSE m @@ (k :> <<v>>)

RECURSIVE PushAll(_, _, _)
(* m[k].push_back(v) for each v of vs, in order.                           *)
PushAll(m, k, vs) ==
    IF vs = <<>> THEN m ELSE PushAll(MapPush(m, k, Head(vs)), k, Tail(vs))

RECURSIVE PushEach(_, _, _)
(* m[k].push_back(v) for each k of ks, in order.                           *)
PushEach(m, ks, v) ==
    IF ks = <<>> THEN m ELSE PushEach(MapPush(m, Head(ks), v), Tail(ks), v)

----------------------------------------------------------------------------
(* The passes LoadFile runs after the parser.  A pass state ps carries the *)
(* cursor, how the run has gone so far ("ok", "abort", "oob"), whether an  *)
(* unchecked table read fell outside its vector (wild), and the maps.      *)

Ok(r) == r.outcome = "ok"

Fail(ps, r) == [ps EXCEPT !.outcome = r.outcome, !.cursor = r.cursor]

(* The undefined behaviour of an unchecked read: inside the tables there   *)
(* is none (no crash, no junk); outside, the read crashes or yields junk.  *)
Wild(md, expressID, junk) ==
    \/ expressID >= Len(md.expressIDToLine)
    \/ ExpressIDToLineID(md, expressID, junk) >= Len(md.lines)

(* The text of a string or enum payload, as character codes.              *)
Chars_LENGTHUNIT == <<76, 69, 78, 71, 84, 72, 85, 78, 73, 84>>
Chars_METRE == <<77, 69, 84, 82, 69>>
Chars_EXA == <<69, 88, 65>>
Chars_PETA == <<80, 69, 84, 65>>
Chars_TERA == <<84, 69, 82, 65>>
Chars_GIGA == <<71, 73, 71, 65>>
Chars_MEGA == <<77, 69, 71, 65>>
Chars_KILO == <<75, 73, 76, 79>>
Chars_HECTO == <<72, 69, 67, 84, 79>>
Chars_DECA == <<68, 69, 67, 65>>
Chars_DECI == <<68, 69, 67, 73>>
Chars_CENTI == <<67, 69, 78, 84, 73>>
Chars_MILLI == <<77, 73, 76, 76, 73>>
Chars_MICRO == <<77, 73, 67, 82, 79>>
Chars_NANO == <<78, 65, 78, 79>>
Chars_PICO == <<80, 73, 67, 79>>
Chars_FEMTO == <<70, 69, 77, 84, 79>>
Chars_ATTO == <<65, 84, 84, 79>>

(* Mutant: every prefix converts to 1.                                     *)
ConvertPrefixAlwaysOne(prefix) == 0

(* IfcLoader::ConvertPrefix.  The double it returns is a power of ten and  *)
(* is kept as its exponent: 1 is 0, 1e18 is 18, 10 is 1, 1e-3 is -3.       *)
ConvertPrefix(prefix) ==
    CASE prefix = <<>> -> 0
      [] prefix = Chars_EXA -> 18
      [] prefix = Chars_PETA -> 15
      [] prefix = Chars_TERA -> 12
      [] prefix = Chars_GIGA -> 9
      [] prefix = Chars_MEGA -> 6
      [] prefix = Chars_KILO -> 3
      [] prefix = Chars_HECTO -> 2
      [] prefix = Chars_DECA -> 1
      [] prefix = Chars_DECI -> -1
      [] prefix = Chars_CENTI -> -2
      [] prefix = Chars_MILLI -> -3
      [] prefix = Chars_MICRO -> -6
      [] prefix = Chars_NANO -> -9
      [] prefix = Chars_PICO -> -12
      [] prefix = Chars_FEMTO -> -15
      [] prefix = Chars_ATTO -> -18
      [] OTHER -> 0

RECURSIVE RelVoidsLoop(_, _, _, _, _)
(* The loop of PopulateRelVoidsMap over the handles of the type.           *)
RelVoidsLoop(t, md, ids, ps, nd) ==
    IF ids = <<>> \/ ~Ok(ps) THEN ps
    ELSE LET line == GetLine(md, ExpressIDToLineID(md, Head(ids), 0))
             m == MoveToArgumentOffset(t, line, 4, nd)
             relatingBuildingElement == GetRefArgument(t, m.cursor)
             relatedOpeningElement == GetRefArgument(t, relatingBuildingElement.cursor)
         IN IF ~Ok(m) THEN Fail(ps, m)
            ELSE IF ~Ok(relatingBuildingElement) THEN Fail(ps, relatingBuildingElement)
            ELSE IF ~Ok(relatedOpeningElement) THEN Fail(ps, relatedOpeningElement)
            ELSE RelVoidsLoop(t, md, Tail(ids),
                     [ps EXCEPT !.cursor = relatedOpeningElement.cursor,
                                !.relVoids = MapPush(@, relatingBuildingElement.value,
                                                     relatedOpeningElement.value)], nd)

(* IfcLoader::PopulateRelVoidsMap.                                         *)
PopulateRelVoidsMap(t, md, ps, nd) ==
    RelVoidsLoop(t, md, GetExpressIDsWithType(md, IFCRELVOIDSELEMENT), ps, nd)

RECURSIVE RelAggregatesLoop(_, _, _, _, _)
RelAggregatesLoop(t, md, ids, ps, nd) ==
    IF ids = <<>> \/ ~Ok(ps) THEN ps
    ELSE LET line == GetLine(md, ExpressIDToLineID(md, Head(ids), 0))
             m == MoveToArgumentOffset(t, line, 4, nd)
             relatingBuildingElement == GetRefArgument(t, m.cursor)
             aggregates == GetSetArgument(t, relatingBuildingElement.cursor, nd)
             refs == ReadRefs(t, aggregates.offsets, aggregates.cursor, <<>>)
         IN IF ~Ok(m) THEN Fail(ps, m)
            ELSE IF ~Ok(relatingBuildingElement) THEN Fail(ps, relatingBuildingElement)
            ELSE IF ~Ok(aggregates) THEN Fail(ps, aggregates)
            ELSE RelAggregatesLoop(t, md, Tail(ids),
                     [ps EXCEPT !.outcome = refs.outcome,
                                !.cursor = refs.cursor,
                                !.relAggregates = PushAll(@, relatingBuildingElement.value,
                                                          refs.value)], nd)

(* IfcLoader::PopulateRelAggregatesMap.                                    *)
PopulateRelAggregatesMap(t, md, ps, nd) ==
    RelAggregatesLoop(t, md, GetExpressIDsWithType(md, IFCRELAGGREGATES), ps, nd)

(* (styledItemID, v) for each v of vs.                                     *)
PairsWith(id, vs) == [k \in 1..Len(vs) |-> <<id, vs[k]>>]

RECURSIVE StyledItemLoop(_, _, _, _, _)
(* The loop of PopulateStyledItemMap.  The line of representationItem is   *)
(* looked up (unchecked) and copied, but the cursor stays where            *)
(* GetRefArgument left it: GetSetArgument reads what follows argument 0.   *)
StyledItemLoop(t, md, ids, ps, nd) ==
    IF ids = <<>> \/ ~Ok(ps) THEN ps
    ELSE LET styledItemID == Head(ids)
             line == GetLine(md, ExpressIDToLineID(md, styledItemID, 0))
             m == MoveToArgumentOffset(t, line, 0, nd)
             tt == GetTokenType(t, m.cursor)
             representationItem == GetRefArgument(t, Reverse(tt.cursor))
             styleAssignments == GetSetArgument(t, representationItem.cursor, nd)
             refs == ReadRefs(t, styleAssignments.offsets, styleAssignments.cursor, <<>>)
         IN IF ~Ok(m) THEN Fail(ps, m)
            ELSE IF ~Ok(tt) THEN Fail(ps, tt)
            ELSE IF tt.value # REF
                 THEN StyledItemLoop(t, md, Tail(ids), [ps EXCEPT !.cursor = tt.cursor], nd)
            ELSE IF ~Ok(representationItem) THEN Fail(ps, representationItem)
            ELSE IF ~Ok(styleAssignments)
                 THEN [Fail(ps, styleAssignments) EXCEPT
                          !.wild = @ \/ Wild(md, representationItem.value, 0)]
            ELSE StyledItemLoop(t, md, Tail(ids),
                     [ps EXCEPT !.outcome = refs.outcome,
                                !.cursor = refs.cursor,
                                !.wild = @ \/ Wild(md, representationItem.value, 0),
                                !.styledItems = PushAll(@, representationItem.value,
                                                        PairsWith(styledItemID, refs.value))],
                     nd)

(* IfcLoader::PopulateStyledItemMap.                                       *)
PopulateStyledItemMap(t, md, ps, nd) ==
    StyledItemLoop(t, md, GetExpressIDsWithType(md, IFCSTYLEDITEM), ps, nd)

RECURSIVE RelMaterialsLoop(_, _, _, _, _)
RelMaterialsLoop(t, md, ids, ps, nd) ==
    IF ids = <<>> \/ ~Ok(ps) THEN ps
    ELSE LET styledItemID == Head(ids)
             line == GetLine(md, ExpressIDToLineID(md, styledItemID, 0))
             m5 == MoveToArgumentOffset(t, line, 5, nd)
             materialSelect == GetRefArgument(t, m5.cursor)
             m4 == MoveToArgumentOffset(t, line, 4, nd)
             RelatedObjects == GetSetArgument(t, m4.cursor, nd)
             refs == ReadRefs(t, RelatedObjects.offsets, RelatedObjects.cursor, <<>>)
         IN IF ~Ok(m5) THEN Fail(ps, m5)
            ELSE IF ~Ok(materialSelect) THEN Fail(ps, materialSelect)
            ELSE IF ~Ok(m4) THEN Fail(ps, m4)
            ELSE IF ~Ok(RelatedObjects) THEN Fail(ps, RelatedObjects)
            ELSE RelMaterialsLoop(t, md, Tail(ids),
                     [ps EXCEPT !.outcome = refs.outcome,
                                !.cursor = refs.cursor,
                                !.relMaterials = PushEach(@, refs.value,
                                                    <<styledItemID, materialSelect.value>>)],
                     nd)

RECURSIVE MaterialDefinitionsLoop(_, _, _, _, _)
MaterialDefinitionsLoop(t, md, ids, ps, nd) ==
    IF ids = <<>> \/ ~Ok(ps) THEN ps
    ELSE LET styledItemID == Head(ids)
             line == GetLine(md, ExpressIDToLineID(md, styledItemID, 0))
             m2 == MoveToArgumentOffset(t, line, 2, nd)
             representations == GetSetArgument(t, m2.cursor, nd)
             m3 == MoveToArgumentOffset(t, line, 3, nd)
             material == GetRefArgument(t, m3.cursor)
             refs == ReadRefs(t, representations.offsets, material.cursor, <<>>)
         IN IF ~Ok(m2) THEN Fail(ps, m2)
            ELSE IF ~Ok(representations) THEN Fail(ps, representations)
            ELSE IF ~Ok(m3) THEN Fail(ps, m3)
            ELSE IF ~Ok(material) THEN Fail(ps, material)
            ELSE MaterialDefinitionsLoop(t, md, Tail(ids),
                     [ps EXCEPT !.outcome = refs.outcome,
                                !.cursor = refs.cursor,
                                !.materialDefinitions =
                                    PushAll(@, material.value,
                                            PairsWith(styledItemID, refs.value))],
                     nd)

(* IfcLoader::PopulateRelMaterialsMap: the material associations, then the *)
(* material definition representations.                                    *)
PopulateRelMaterialsMap(t, md, ps, nd) ==
    MaterialDefinitionsLoop(t, md,
        GetExpressIDsWithType(md, IFCMATERIALDEFINITIONREPRESENTATION),
        RelMaterialsLoop(t, md, GetExpressIDsWithType(md, IFCRELASSOCIATESMATERIAL), ps, nd),
        nd)

RECURSIVE UnitsLoop(_, _, _, _, _, _)
(* The loop of ReadLinearScalingFactor over the set of the units line.     *)
(* Each handle is resolved with the unchecked ExpressIDToLineID / GetLine; *)
(* a read outside the handle table yields junk.                            *)
UnitsLoop(t, md, unitIds, ps, nd, junk) ==
    IF unitIds = <<>> \/ ~Ok(ps) THEN ps
    ELSE LET unitRef == GetRefArgument(t, Head(unitIds))
             line == GetLine(md, ExpressIDToLineID(md, unitRef.value, junk))
             seen == [ps EXCEPT !.wild = @ \/ Wild(md, unitRef.value, junk)]
             m1 == MoveToArgumentOffset(t, line, 1, nd)
             unitType == GetStringArgument(t, m1.cursor)
             m2 == MoveToArgumentOffset(t, line, 2, nd)
             tt == GetTokenType(t, m2.cursor)
             unitPrefix == IF tt.value = ENUM THEN GetStringArgument(t, Reverse(tt.cursor))
                           ELSE Read("ok", tt.cursor, <<>>)
             m3 == MoveToArgumentOffset(t, line, 3, nd)
             unitName == GetStringArgument(t, m3.cursor)
         IN IF ~Ok(unitRef) THEN Fail(ps, unitRef)
            ELSE IF line.ifcType # IFCSIUNIT
                 THEN UnitsLoop(t, md, Tail(unitIds),
                                [seen EXCEPT !.cursor = unitRef.cursor], nd, junk)
            ELSE IF ~Ok(m1) THEN Fail(seen, m1)
            ELSE IF ~Ok(unitType) THEN Fail(seen, unitType)
            ELSE IF ~Ok(m2) THEN Fail(seen, m2)
            ELSE IF ~Ok(tt) THEN Fail(seen, tt)
            ELSE IF ~Ok(unitPrefix) THEN Fail(seen, unitPrefix)
            ELSE IF ~Ok(m3) THEN Fail(seen, m3)
            ELSE IF ~Ok(unitName) THEN Fail(seen, unitName)
            ELSE UnitsLoop(t, md, Tail(unitIds),
                     [seen EXCEPT !.cursor = unitName.cursor,
                                  !.linearScalingFactor =
                                      IF unitType.value = Chars_LENGTHUNIT
                                         /\ unitName.value = Chars_METRE
                                      THEN ConvertPrefix(unitPrefix.value) ELSE @],
                     nd, junk)

(* Mutant: only a model without IFCPROJECT is unexpected.                  *)
UnexpectedProjectsOnlyNone(projects) == Len(projects) = 0

(* if (projects.size() != 1): warn and return.                             *)
UnexpectedProjects(projects) == Len(projects) # 1

(* IfcLoader::ReadLinearScalingFactor.                                     *)
ReadLinearScalingFactor(t, md, ps, nd, junk) ==
    LET projects == GetExpressIDsWithType(md, IFCPROJECT)
        line == GetLine(md, ExpressIDToLineID(md, projects[1], junk))
        m8 == MoveToArgumentOffset(t, line, 8, nd)
        unitsID == GetRefArgument(t, m8.cursor)
        unitsLine == GetLine(md, ExpressIDToLineID(md, unitsID.value, junk))
        seen == [ps EXCEPT !.wild = @ \/ Wild(md, unitsID.value, junk)]
        m0 == MoveToArgumentOffset(t, unitsLine, 0, nd)
        unitIds == GetSetArgument(t, m0.cursor, nd)
    IN IF ~Ok(ps) \/ UnexpectedProjects(projects) THEN ps
       ELSE IF ~Ok(m8) THEN Fail(ps, m8)
       ELSE IF ~Ok(unitsID) THEN Fail(ps, unitsID)
       ELSE IF ~Ok(m0) THEN Fail(seen, m0)
       ELSE IF ~Ok(unitIds) THEN Fail(seen, unitIds)
       ELSE UnitsLoop(t, md, unitIds.offsets, [seen EXCEPT !.cursor = unitIds.cursor],
                      nd, junk)

(* The four relationship passes of LoadFile, in its order.                 *)
RelationshipPasses(t, md, ps, nd) ==
    PopulateRelMaterialsMap(t, md,
        PopulateStyledItemMap(t, md,
            PopulateRelAggregatesMap(t, md,
                PopulateRelVoidsMap(t, md, ps, nd), nd), nd), nd)

(* Everything LoadFile runs after ParseTape.                               *)
PostPasses(t, md, ps, nd, junk) ==
    ReadLinearScalingFactor(t, md, RelationshipPasses(t, md, ps, nd), nd, junk)

----------------------------------------------------------------------------
(* The serializer.  Text is a sequence of character codes (ASCII): 10 is   *)
(* the newline of std::endl, 35 #, 36 $, 39 the single quote, 40 (, 41 ),  *)
(* 42 *, 44 the comma, 46 the dot, 59 ;, 61 =, 48..57 the digits.          *)

(* The header DumpAsIFC writes: "ISO-10303-21;" ... "DATA;", each followed *)
(* by a newline, with description "no description" and name "no name".     *)
HeaderText ==
    <<73, 83, 79, 45, 49, 48, 51, 48, 51, 45, 50, 49, 59, 10, 72, 69, 65,
      68, 69, 82, 59, 10, 70, 73, 76, 69, 95, 68, 69, 83, 67, 82, 73, 80,
      84, 73, 79, 78, 40, 40, 39, 110, 111, 32, 100, 101, 115, 99, 114,
      105, 112, 116, 105, 111, 110, 41, 44, 32, 39, 50, 59, 49, 39, 41, 59,
      10, 70, 73, 76, 69, 95, 78, 65, 77, 69, 40, 39, 110, 111, 32, 110,
      97, 109, 101, 39, 44, 32, 39, 39, 44, 32, 40, 39, 39, 41, 44, 32, 40,
      39, 39, 41, 44, 32, 39, 119, 101, 98, 45, 105, 102, 99, 45, 101, 120,
      112, 111, 114, 116, 39, 41, 59, 10, 70, 73, 76, 69, 95, 83, 67, 72,
      69, 77, 65, 40, 40, 39, 73, 70, 67, 50, 88, 51, 39, 41, 41, 59, 10,
      69, 78, 68, 83, 69, 67, 59, 10, 68, 65, 84, 65, 59, 10>>

(* "ENDSEC;" newline "END-ISO-10303-21;"                                   *)
FooterText ==
    <<69, 78, 68, 83, 69, 67, 59, 10, 69, 78, 68, 45, 73, 83, 79, 45, 49,
      48, 51, 48, 51, 45, 50, 49, 59>>

RECURSIVE Digits(_)
(* file << ref for an unsigned integer: its decimal digits.                *)
Digits(n) == IF n < 10 THEN <<48 + n>> ELSE Digits(n \div 10) \o <<48 + (n % 10)>>

(* file << d at precision 16 for the one double the model puts on tapes,   *)
(* 1.0, which prints as "1"; any other payload prints as "?".              *)
FormatDouble(bytes) == IF bytes = RealArg.bytes THEN <<49>> ELSE <<63>>

Dumped(outcome, cursor, text) == [outcome |-> outcome, cursor |-> cursor, text |-> text]

CommaBeforeAlsoAfterLabel(tok, insideSet, prev) ==
    /\ tok # SET_END /\ tok # LINE_END
    /\ insideSet /\ prev # SET_BEGIN /\ prev # LINE_END

(* if (t != SET_END && t != LINE_END) if (insideSet && prev != SET_BEGIN   *)
(* && prev != LABEL && prev != LINE_END): a comma goes before token tok.   *)
CommaBefore(tok, insideSet, prev) ==
    /\ tok # SET_END /\ tok # LINE_END
    /\ insideSet /\ prev # SET_BEGIN /\ prev # LABEL /\ prev # LINE_END

RECURSIVE DumpLoop(_, _, _, _, _, _)
(* The while (!_tape.AtEnd()) loop of DumpAsIFC, one token per call.       *)
DumpLoop(t, pos, newLine, insideSet, prev, text) ==
    IF pos >= Len(t) THEN Dumped("ok", pos, text)
    ELSE
    LET tok == At(t, pos)
        file == IF CommaBefore(tok, insideSet, prev) THEN Append(text, 44) ELSE text
        view == Slice(t, pos + 2, pos + 2 + At(t, pos + 1))
        Go(p, inSet, out) == DumpLoop(t, p, FALSE, inSet, tok, out)
        WithView(before, after) ==
            IF ~CanRead(t, pos + 1, 1) THEN Dumped("oob", pos + 1, file)
            ELSE IF ~CanRead(t, pos + 2, At(t, pos + 1)) THEN Dumped("oob", pos + 2, file)
            ELSE Go(pos + 2 + At(t, pos + 1), insideSet, file \o before \o view \o after)
    IN IF tok = LINE_END THEN Dumped("ok", pos + 1, file \o <<59, 10>>)
       ELSE CASE tok = UNKNOWN -> Go(pos + 1, insideSet, file \o <<42>>)
              [] tok = EMPTY -> Go(pos + 1, insideSet, file \o <<36>>)
              [] tok = SET_BEGIN -> Go(pos + 1, TRUE, file \o <<40>>)
              [] tok = SET_END -> Go(pos + 1, insideSet, file \o <<41>>)
              [] tok = STRING_ -> WithView(<<39>>, <<39>>)
              [] tok = ENUM -> WithView(<<46>>, <<46>>)
              [] tok = LABEL -> WithView(<<>>, <<>>)
              [] tok = REF ->
                   IF ~CanRead(t, pos + 1, 4) THEN Dumped("oob", pos + 1, file)
                   ELSE Go(pos + 5, insideSet,
                           file \o <<35>> \o Digits(U32At(t, pos + 1))
                                \o (IF newLine THEN <<61>> ELSE <<>>))
              [] tok = REAL ->
                   IF ~CanRead(t, pos + 1, 8) THEN Dumped("oob", pos + 1, file)
                   ELSE Go(pos + 9, insideSet, file \o FormatDouble(Slice(t, pos + 1, pos + 9)))
              [] OTHER -> Go(pos + 1, insideSet, file)

DumpLineNeverNew(t, line, text) == DumpLoop(t, line.tapeOffset, FALSE, FALSE, EMPTY, text)

(* The body of for (auto& line : _metaData.lines): the cursor moves to the *)
(* record's tapeOffset and the tokens are written out up to LINE_END.      *)
DumpLine(t, line, text) == DumpLoop(t, line.tapeOffset, TRUE, FALSE, EMPTY, text)

RECURSIVE DumpRecords(_, _, _)
DumpRecords(t, ls, d) ==
    IF ls = <<>> \/ ~Ok(d) THEN d
    ELSE DumpRecords(t, Tail(ls), DumpLine(t, Head(ls), d.text))

(* IfcLoader::DumpAsIFC with the read cursor at pos.                       *)
DumpAsIFC(t, md, pos) ==
    LET d == DumpRecords(t, md.lines, Dumped("ok", pos, HeaderText))
    IN [d EXCEPT !.text = IF Ok(d) THEN @ \o FooterText ELSE @]

----------------------------------------------------------------------------
(* The tokenizer, on text as character codes: outside a line it seeks #;   *)
(* inside a line it emits one token per literal, tag byte and payload.     *)

Letters == (65..90) \cup (97..122)

DigitChars == 48..57

LabelChars == Letters \cup DigitChars \cup {95}

NumberChars == DigitChars \cup {43, 45, 46, 69, 101}

(* The first index from i on whose character is outside set, or Len + 1.   *)
SpanEnd(x, i, set) ==
    LET js == {j \in i..Len(x) : x[j] \notin set}
    IN IF js = {} THEN Len(x) + 1 ELSE CHOOSE j \in js : \A k \in js : j <= k

RECURSIVE ParseNat(_)
ParseNat(ds) ==
    IF ds = <<>> THEN 0 ELSE 10 * ParseNat(SubSeq(ds, 1, Len(ds) - 1)) + (ds[Len(ds)] - 48)

(* Decimal-to-double for the literal of the one double of the model, "1";  *)
(* any other literal converts to the payload of 0.0.                       *)
ParseDouble(cs) == IF cs = <<49>> THEN RealArg.bytes ELSE <<0, 0, 0, 0, 0, 0, 0, 0>>

RECURSIVE StringEnd(_, _, _)
(* A quoted string from index j on: a doubled quote is a literal quote,    *)
(* a single one ends the string.  ok is FALSE when the text ends first.    *)
StringEnd(x, j, cs) ==
    IF j > Len(x) THEN [ok |-> FALSE, next |-> j, chars |-> cs]
    ELSE IF x[j] # 39 THEN StringEnd(x, j + 1, Append(cs, x[j]))
    ELSE IF j + 1 <= Len(x) /\ x[j + 1] = 39 THEN StringEnd(x, j + 2, Append(cs, 39))
    ELSE [ok |-> TRUE, next |-> j + 1, chars |-> cs]

RECURSIVE TokenizeFrom(_, _, _, _)
TokenizeFrom(x, i, inLine, out) ==
    IF i > Len(x) THEN [ok |-> TRUE, tape |-> out]
    ELSE
    LET c == x[i]
        refEnd == SpanEnd(x, i + 1, DigitChars)
        str == StringEnd(x, i + 1, <<>>)
        enumEnd == SpanEnd(x, i + 1, LabelChars)
        labelEnd == SpanEnd(x, i, LabelChars)
        numEnd == SpanEnd(x, i, NumberChars)
        Token(next, bytes) == TokenizeFrom(x, next, TRUE, out \o bytes)
    IN IF c = 35
       THEN Token(refEnd, Emit(RefArg(ParseNat(SubSeq(x, i + 1, refEnd - 1)))))
       ELSE IF ~inLine THEN TokenizeFrom(x, SpanEnd(x, i, (0..255) \ {35}), FALSE, out)
       ELSE CASE c = 39 ->
                   IF str.ok THEN Token(str.next, Emit(StrArg(str.chars)))
                   ELSE [ok |-> FALSE, tape |-> out]
              [] c = 46 /\ i + 1 <= Len(x) /\ x[i + 1] \in Letters ->
                   IF enumEnd <= Len(x) /\ x[enumEnd] = 46
                   THEN Token(enumEnd + 1, Emit(EnumArg(SubSeq(x, i + 1, enumEnd - 1))))
                   ELSE [ok |-> FALSE, tape |-> out]
              [] c \in NumberChars \ {69, 101} ->
                   Token(numEnd, <<REAL>> \o ParseDouble(SubSeq(x, i, numEnd - 1)))
              [] c \in Letters -> Token(labelEnd, Emit(LabelArg(SubSeq(x, i, labelEnd - 1))))
              [] c = 40 -> Token(i + 1, <<SET_BEGIN>>)
              [] c = 41 -> Token(i + 1, <<SET_END>>)
              [] c = 36 -> Token(i + 1, <<EMPTY>>)
              [] c = 42 -> Token(i + 1, <<UNKNOWN>>)
              [] c = 59 -> TokenizeFrom(x, i + 1, FALSE, out \o <<LINE_END>>)
              [] OTHER -> TokenizeFrom(x, i + 1, TRUE, out)

(* Tokenizer::Tokenize(content): the tape of the text, or ok = FALSE for a *)
(* literal that does not end.                                              *)
Tokenize(x) == TokenizeFrom(x, 1, FALSE, <<>>)

----------------------------------------------------------------------------
(* State, and the operations of the loader.                                *)

Op(name, expressID, type, start, end, arg) ==
    [name |-> name, expressID |-> expressID, type |-> type,
     start |-> start, end |-> end, arg |-> arg]

(* list is the vector an operation returns: tape offsets or expressIDs.    *)
Ret(outcome, line, list, bytes) ==
    [outcome |-> outcome, line |-> line, list |-> list, bytes |-> bytes]

NoRet == Ret("ok", NoLine, <<>>, <<>>)

LogEntry(via, expressID, type, args, start, end) ==
    [via |-> via, expressID |-> expressID, type |-> type, args |-> args,
     start |-> start, setBegin |-> SetBeginOf(start, type), end |-> end]

(* IfcAPI before any call: an empty virtual file system, no WriteLine      *)
(* running.  files is the set of paths that exist; objects are the line    *)
(* objects handed to WriteLine as they are now, given those they were when *)
(* handed over; stack is the chain of WriteLine calls that have not        *)
(* returned; calls are the WriteRawLineData calls made so far.             *)
InitApi ==
    [files |-> {}, given |-> <<>>, objects |-> <<>>, stack |-> <<>>, calls |-> <<>>,
     status |-> "idle", last |-> "new"]

(* The fields an IfcLoader and its IfcMetaData start with: empty maps, the *)
(* scale 1.0 = 10^0, _open = false.                                        *)
InitFields ==
    /\ relVoids = EmptyMap
    /\ relAggregates = EmptyMap
    /\ styledItems = EmptyMap
    /\ relMaterials = EmptyMap
    /\ materialDefinitions = EmptyMap
    /\ linearScalingFactor = 0
    /\ open = FALSE
    /\ tapeBlocks = 0
    /\ api = InitApi

(* A freshly constructed IfcLoader: empty tape, empty indices.             *)
InitLoader ==
    /\ tape = <<>>
    /\ readOffset = 0
    /\ lines = EmptyMeta.lines
    /\ expressIDToLine = EmptyMeta.expressIDToLine
    /\ ifcTypeToLineID = EmptyMeta.ifcTypeToLineID
    /\ fault = FALSE
    /\ log = <<>>
    /\ op = Op("new", 0, 0, 0, 0, 0)
    /\ ret = NoRet
    /\ InitFields

SetMeta(md) ==
    /\ lines' = md.lines
    /\ expressIDToLine' = md.expressIDToLine
    /\ ifcTypeToLineID' = md.ifcTypeToLineID
    /\ fault' = md.fault

(* The write path: record the tape size, emit  REF LABEL ( args ) ;  and   *)
(* index the line with UpdateLineTape(expressID, type, start, end).        *)
WriteRaw(blocks, t, md, expressID, type, args, crash) ==
    LET start == ToUint32(GetTotalSize(blocks, t))
        t1 == t \o LineTokens(expressID, type, args)
        end == ToUint32(GetTotalSize(blocks, t1))
    IN [tape |-> t1, start |-> start, end |-> end,
        md |-> UpdateLineTape(md, expressID, type, start, end, crash)]

WriteLine(expressID, type, args) ==
    /\ ~fault
    /\ Len(log) < MaxLines
    /\ \E crash \in (IF expressID = 0 THEN BOOLEAN ELSE {FALSE}) :
         LET w == WriteRaw(tapeBlocks, tape, Meta, expressID, type, args, crash)
         IN /\ SetMeta(w.md)
            /\ tape' = IF w.md.fault THEN tape ELSE w.tape
            /\ log' = IF w.md.fault THEN log
                      ELSE Append(log, LogEntry("write", expressID, type, args, w.start, w.end))
            /\ op' = Op("UpdateLineTape", expressID, type, w.start, w.end, 0)
            /\ ret' = NoRet
    /\ UNCHANGED <<readOffset, rel, open, tapeBlocks, api>>

(* Tokenizer and parser on one line of the file: the tokens go on the tape *)
(* and the record gets tapeOffset = the outer SET_BEGIN, tapeEnd = just    *)
(* past LINE_END.                                                          *)
RECURSIVE ParseTape(_, _)
ParseTape(st, file) ==
    IF file = <<>> THEN st
    ELSE LET l == Head(file)
             start == Len(st.tape)
             t1 == st.tape \o LineTokens(l.expressID, l.type, l.args)
             e == LogEntry("load", l.expressID, l.type, l.args, start, Len(t1))
         IN ParseTape([tape |-> t1,
                       md |-> ParseLine(st.md, l.expressID, l.type, e.setBegin, e.end),
                       log |-> Append(st.log, e)],
                      Tail(file))

FileLines == {[expressID |-> h, type |-> l.type, args |-> l.args] : h \in Handles \ {0}, l \in IndexLines}

(* The files loaded: up to MaxLines lines, each handle defined once.       *)
Files ==
    { f \in UNION { [1..n -> FileLines] : n \in 1..MaxLines } :
        \A i, j \in 1..Len(f) : f[i].expressID = f[j].expressID => i = j }

(* The pass state LoadFile starts from: the loader's maps, the cursor     *)
(* where the parser stopped.                                               *)
PassState(cursor) ==
    [outcome |-> "ok", cursor |-> cursor, wild |-> FALSE,
     relVoids |-> relVoids, relAggregates |-> relAggregates,
     styledItems |-> styledItems, relMaterials |-> relMaterials,
     materialDefinitions |-> materialDefinitions,
     linearScalingFactor |-> linearScalingFactor]

(* IfcLoader::LoadFile on a fresh loader (OpenModel): tokenizer, parser,   *)
(* the relationship passes and ReadLinearScalingFactor.  nd is the build   *)
(* (NDEBUG or not); junk and crash are what an unchecked table read yields *)
(* when it falls outside its vector.  A failed assert, a read past the     *)
(* tape or a crash ends the process.  Files whose lines all have a type    *)
(* code of Types give the passes nothing to select.                        *)
LoadFile(file) ==
    /\ ~fault
    /\ log = <<>>
    /\ \E st \in {ParseTape([tape |-> tape, md |-> Meta, log |-> log], file)},
          nd \in BOOLEAN :
         \E ps0 \in {PostPasses(st.tape, st.md, PassState(Len(st.tape)), nd, 0)} :
         \E junk \in (IF ps0.wild THEN 0..Len(st.md.lines) ELSE {0}),
            crash \in (IF ps0.wild THEN BOOLEAN ELSE {FALSE}) :
         \E ps \in {IF junk = 0 THEN ps0
                    ELSE PostPasses(st.tape, st.md, PassState(Len(st.tape)), nd, junk)} :
            LET crashed == ps.wild /\ crash
            IN /\ tape' = st.tape
               /\ lines' = st.md.lines
               /\ expressIDToLine' = st.md.expressIDToLine
               /\ ifcTypeToLineID' = st.md.ifcTypeToLineID
               /\ fault' = (crashed \/ ~Ok(ps))
               /\ log' = st.log
               /\ readOffset' = ps.cursor
               /\ relVoids' = ps.relVoids
               /\ relAggregates' = ps.relAggregates
               /\ styledItems' = ps.styledItems
               /\ relMaterials' = ps.relMaterials
               /\ materialDefinitions' = ps.materialDefinitions
               /\ linearScalingFactor' = ps.linearScalingFactor
               /\ ret' = Ret(IF crashed THEN "crash" ELSE ps.outcome, NoLine, <<>>, <<>>)
    /\ op' = Op("LoadFile", 0, 0, 0, 0, 0)
    /\ UNCHANGED <<open, tapeBlocks>>

Outcomes(md, expressID) ==
    IF expressID < Len(md.expressIDToLine)
    THEN {[crash |-> c, junk |-> 0] :
            c \in IF Wild(md, expressID, 0) THEN BOOLEAN ELSE {FALSE}}
    ELSE [crash : BOOLEAN, junk : 0..Len(md.lines)]

(* IfcLoader::CopyTapeForExpressLine: the line record is reached as in    *)
(* GetLine(ExpressIDToLineID(expressID)), both reads unchecked; then the   *)
(* bytes of [tapeOffset, tapeEnd) are copied out.                          *)
CallCopyTapeForExpressLine(expressID) ==
    /\ ~fault
    /\ \E ub \in Outcomes(Meta, expressID) :
         LET lineID == ExpressIDToLineID(Meta, expressID, ub.junk)
             crashed == Wild(Meta, expressID, ub.junk) /\ ub.crash
             line == GetLine(Meta, lineID)
         IN /\ fault' = crashed
            /\ ret' = IF crashed THEN Ret("crash", NoLine, <<>>, <<>>)
                      ELSE Ret("ok", line, <<>>,
                               TapeCopy(tapeBlocks, tape, FromUint32(line.tapeOffset),
                                        FromUint32(line.tapeEnd)))
    /\ op' = Op("CopyTapeForExpressLine", expressID, 0, 0, 0, 0)
    /\ UNCHANGED <<tape, readOffset, lines, expressIDToLine, ifcTypeToLineID, log,
                   rel, open, tapeBlocks, api>>

CallGetExpressIDsWithType(type) ==
    /\ ~fault
    /\ op' = Op("GetExpressIDsWithType", 0, type, 0, 0, 0)
    /\ ret' = Ret("ok", NoLine, GetExpressIDsWithType(Meta, type), <<>>)
    /\ UNCHANGED <<tape, readOffset, lines, expressIDToLine, ifcTypeToLineID, fault, log,
                   rel, open, tapeBlocks, api>>

Init == InitLoader

Next ==
    \/ log = <<>> /\ \E f \in Files : LoadFile(f) /\ UNCHANGED api
    \/ \E h \in Handles, l \in IndexLines : WriteLine(h, l.type, l.args)
    \/ \E h \in LookupHandles : CallCopyTapeForExpressLine(h)
    \/ \E t \in Types : CallGetExpressIDsWithType(t)

Spec == Init /\ [][Next]_vars

----------------------------------------------------------------------------
(* Loading files of relationship lines.  The lines are well-formed or      *)
(* carry EMPTY where the pass expects a REF; the handles they refer to     *)
(* need not be defined in the file.                                        *)

Fill4 == <<EmptyArg, EmptyArg, EmptyArg, EmptyArg>>

Fill4Mixed == <<StrArg(<<103>>), EmptyArg, SetOf(<<RefArg(9)>>), UnknownArg>>

RelVoidsLines ==
    { [type |-> IFCRELVOIDSELEMENT, args |-> Fill4 \o <<RefArg(b), RefArg(o)>>] :
        b \in {10, 11}, o \in {20, 21} }
    \cup { [type |-> IFCRELVOIDSELEMENT, args |-> Fill4Mixed \o <<RefArg(10), RefArg(22)>>],
           [type |-> IFCRELVOIDSELEMENT, args |-> Fill4 \o <<EmptyArg, RefArg(20)>>],
           [type |-> IFCRELVOIDSELEMENT, args |-> Fill4 \o <<RefArg(10), EmptyArg>>] }

RelAggregatesLines ==
    { [type |-> IFCRELAGGREGATES, args |-> Fill4 \o <<RefArg(10), SetOf(<<RefArg(30), RefArg(31)>>)>>],
      [type |-> IFCRELAGGREGATES, args |-> Fill4 \o <<RefArg(11), SetOf(<<>>)>>],
      [type |-> IFCRELAGGREGATES, args |-> Fill4 \o <<EmptyArg, SetOf(<<RefArg(30)>>)>>] }

(* Argument 0 refers to a line of the file (1, 2), to no line (10), or is  *)
(* EMPTY.                                                                  *)
StyledItemLines ==
    { [type |-> IFCSTYLEDITEM, args |-> <<RefArg(1), SetOf(<<RefArg(40), RefArg(41)>>), EmptyArg>>],
      [type |-> IFCSTYLEDITEM, args |-> <<RefArg(1), SetOf(<<RefArg(42)>>), EmptyArg>>],
      [type |-> IFCSTYLEDITEM, args |-> <<RefArg(2), SetOf(<<RefArg(40)>>), EmptyArg>>],
      [type |-> IFCSTYLEDITEM, args |-> <<RefArg(10), SetOf(<<RefArg(40)>>), EmptyArg>>],
      [type |-> IFCSTYLEDITEM, args |-> <<EmptyArg, SetOf(<<RefArg(40)>>), EmptyArg>>] }

RelMaterialsLines ==
    { [type |-> IFCRELASSOCIATESMATERIAL,
       args |-> Fill4 \o <<SetOf(<<RefArg(10), RefArg(11)>>), RefArg(50)>>],
      [type |-> IFCRELASSOCIATESMATERIAL,
       args |-> Fill4 \o <<SetOf(<<RefArg(10)>>), EmptyArg>>] }

MaterialDefinitionLines ==
    { [type |-> IFCMATERIALDEFINITIONREPRESENTATION,
       args |-> <<EmptyArg, EmptyArg, SetOf(<<RefArg(60)>>), RefArg(50)>>],
      [type |-> IFCMATERIALDEFINITIONREPRESENTATION,
       args |-> <<EmptyArg, EmptyArg, SetOf(<<RefArg(60)>>), EmptyArg>>] }

RelLines ==
    RelVoidsLines \cup RelAggregatesLines \cup StyledItemLines
        \cup RelMaterialsLines \cup MaterialDefinitionLines

(* A file of n lines from a set of lines; the handles 1..n are given in    *)
(* file order or against it.                                               *)
FilesOf(lineSet, n) ==
    { [k \in 1..n |-> [expressID |-> IF up THEN k ELSE n + 1 - k,
                       type |-> c[k].type, args |-> c[k].args]] :
        c \in [1..n -> lineSet], up \in BOOLEAN }

RelFiles == UNION { FilesOf(RelLines, n) : n \in 1..MaxRelLines }

NextRel == \E f \in RelFiles : LoadFile(f) /\ UNCHANGED api

SpecRel == Init /\ [][NextRel]_vars

----------------------------------------------------------------------------
(* Loading files with IFCPROJECT lines, one units assignment and the unit  *)
(* lines its set refers to.                                                *)

Chars_AREAUNIT == <<65, 82, 69, 65, 85, 78, 73, 84>>
Chars_SQUARE_METRE == <<83, 81, 85, 65, 82, 69, 95, 77, 69, 84, 82, 69>>

SIUnitArgs(unitType, prefix, name) == <<UnknownArg, EnumArg(unitType), prefix, EnumArg(name)>>

(* Length units in metres with no prefix, MILLI and DECA; an area unit;    *)
(* and a line that is not an IFCSIUNIT but reads like a length unit.       *)
UnitLines ==
    { [type |-> IFCSIUNIT, args |-> SIUnitArgs(Chars_LENGTHUNIT, EmptyArg, Chars_METRE)],
      [type |-> IFCSIUNIT, args |-> SIUnitArgs(Chars_LENGTHUNIT, EnumArg(Chars_MILLI), Chars_METRE)],
      [type |-> IFCSIUNIT, args |-> SIUnitArgs(Chars_LENGTHUNIT, EnumArg(Chars_DECA), Chars_METRE)],
      [type |-> IFCSIUNIT, args |-> SIUnitArgs(Chars_AREAUNIT, EnumArg(Chars_MILLI), Chars_SQUARE_METRE)],
      [type |-> 0, args |-> SIUnitArgs(Chars_LENGTHUNIT, EnumArg(Chars_MILLI), Chars_METRE)] }

(* Argument 8 of IFCPROJECT refers to the units assignment.                *)
ProjectArgs(units) ==
    <<StrArg(<<103>>), EmptyArg, EmptyArg, EmptyArg, EmptyArg, EmptyArg, EmptyArg,
      SetOf(<<RefArg(9)>>), RefArg(units)>>

(* Sequences of 1..n distinct elements of 1..n.                            *)
Picks(n) ==
    { q \in UNION { [1..m -> 1..n] : m \in 1..n } :
        \A i, j \in 1..Len(q) : q[i] = q[j] => i = j }

(* A file: np IFCPROJECT lines, the units assignment (of type code 1),     *)
(* then the unit lines us; the set of the assignment refers to the unit    *)
(* lines picked by pick.  Handles go with or against the file order.       *)
UnitFile(np, us, pick, up) ==
    LET n == np + 1 + Len(us)
        H(k) == IF up THEN k ELSE n + 1 - k
    IN [k \in 1..n |->
          IF k <= np THEN [expressID |-> H(k), type |-> IFCPROJECT,
                           args |-> ProjectArgs(H(np + 1))]
          ELSE IF k = np + 1
               THEN [expressID |-> H(k), type |-> 1,
                     args |-> <<SetOf([i \in 1..Len(pick) |-> RefArg(H(np + 1 + pick[i]))])>>]
          ELSE [expressID |-> H(k), type |-> us[k - np - 1].type,
                args |-> us[k - np - 1].args]]

UnitFiles ==
    { UnitFile(np, us, pick, up) :
        np \in 0..2, us \in [1..MaxUnits -> UnitLines], pick \in Picks(MaxUnits),
        up \in BOOLEAN }

NextUnits == \E f \in UnitFiles : LoadFile(f) /\ UNCHANGED api

SpecUnits == Init /\ [][NextUnits]_vars

----------------------------------------------------------------------------
(* Exporting models that were loaded and written.                          *)

(* ExportFileAsIFC: DumpAsIFC on the loader.                               *)
CallDumpAsIFC ==
    /\ ~fault
    /\ \E d \in {DumpAsIFC(tape, Meta, readOffset)} :
         /\ readOffset' = d.cursor
         /\ fault' = ~Ok(d)
         /\ ret' = Ret(d.outcome, NoLine, <<>>, d.text)
    /\ op' = Op("DumpAsIFC", 0, 0, 0, 0, 0)
    /\ UNCHANGED <<tape, lines, expressIDToLine, ifcTypeToLineID, log, rel, open, tapeBlocks>>

DumpHandles == {1, 12}

(* Argument lists with scalars of every tag, a string that holds a single  *)
(* quote (it's), empty and nested sets, and a LABEL with its parenthesised *)
(* value.                                                                  *)
DumpArgs ==
    { <<>>,
      <<RefArg(305)>>,
      <<StrArg(<<120>>), EmptyArg>>,
      <<UnknownArg, EnumArg(<<84>>)>>,
      <<SetOf(<<RefArg(1), RefArg(2)>>), SetOf(<<>>)>>,
      <<SetOf(<<SetOf(<<RefArg(1)>>)>>), RealArg>>,
      <<LabelArg(<<76>>), SetOf(<<StrArg(<<120>>)>>), RefArg(2)>>,
      <<StrArg(<<105, 116, 39, 115>>)>>,
      <<EmptyArg, SetOf(<<EnumArg(<<84>>), StrArg(<<120>>)>>), UnknownArg>> }

DumpLines == {[type |-> 1, args |-> a] : a \in DumpArgs} \cup {[type |-> 0, args |-> <<>>]}

DumpFiles == UNION { FilesOf(DumpLines, n) : n \in 1..MaxDumpLines }

NextDump ==
    \/ \E f \in DumpFiles : LoadFile(f) /\ UNCHANGED api
    \/ Len(log) < MaxDumpLines /\ \E h \in DumpHandles, l \in DumpLines : WriteLine(h, l.type, l.args)
    \/ CallDumpAsIFC /\ UNCHANGED api

SpecDump == Init /\ [][NextDump]_vars

----------------------------------------------------------------------------
(* The argument cursor on one line.  The line is drawn from CursorLines    *)
(* and put on the tape either by the loader (tapeOffset at the outer       *)
(* SET_BEGIN) or by the write path (tapeOffset at the leading REF).        *)

CursorScalars ==
    { RefArg(2), StrArg(<<120>>), EnumArg(<<84>>), LabelArg(<<76>>),
      RealArg, EmptyArg, UnknownArg }

CursorSets ==
    { SetOf(<<>>),
      SetOf(<<RefArg(2)>>),
      SetOf(<<RefArg(1), StrArg(<<120>>)>>),
      SetOf(<<EmptyArg, EnumArg(<<84>>)>>),
      SetOf(<<SetOf(<<RefArg(1)>>), RealArg>>) }

CursorElems == CursorScalars \cup CursorSets

(* Argument lists of up to MaxArgs top-level elements.                     *)
CursorArgs == UNION { [1..n -> CursorElems] : n \in 0..MaxArgs }

InitCursor ==
    \E args \in CursorArgs, via \in {"load", "write"} :
        LET st == IF via = "load"
                  THEN ParseTape([tape |-> <<>>, md |-> EmptyMeta, log |-> <<>>],
                                 <<[expressID |-> 1, type |-> 1, args |-> args]>>)
                  ELSE LET w == WriteRaw(0, <<>>, EmptyMeta, 1, 1, args, FALSE)
                       IN [tape |-> w.tape, md |-> w.md,
                           log |-> <<LogEntry("write", 1, 1, args, w.start, w.end)>>]
        IN /\ tape = st.tape
           /\ readOffset = 0
           /\ lines = st.md.lines
           /\ expressIDToLine = st.md.expressIDToLine
           /\ ifcTypeToLineID = st.md.ifcTypeToLineID
           /\ fault = FALSE
           /\ log = st.log
           /\ op = Op("new", 0, 0, 0, 0, 0)
           /\ ret = NoRet
           /\ InitFields

(* MoveToLineArgument(lineID, argumentIndex): MoveToArgumentOffset on      *)
(* lines[lineID].  A failed assert or a read past the tape ends the run.   *)
CallMoveToArgumentOffset(lineID, argumentIndex, nd) ==
    /\ ~fault
    /\ lineID < Len(lines)
    /\ LET line == GetLine(Meta, lineID)
           r == MoveToArgumentOffset(tape, line, argumentIndex, nd)
       IN /\ readOffset' = r.cursor
          /\ fault' = (r.outcome # "ok")
          /\ op' = Op("MoveToArgumentOffset", line.expressID, 0, line.tapeOffset, 0,
                      argumentIndex)
          /\ ret' = Ret(r.outcome, line, <<>>, <<>>)
    /\ UNCHANGED <<tape, lines, expressIDToLine, ifcTypeToLineID, log, rel, open, tapeBlocks, api>>

(* MoveToLine(lineID): the cursor goes to lines[lineID].tapeOffset.        *)
CallMoveToLine(lineID) ==
    /\ ~fault
    /\ lineID < Len(lines)
    /\ readOffset' = GetLine(Meta, lineID).tapeOffset
    /\ op' = Op("MoveToLine", GetLine(Meta, lineID).expressID, 0, readOffset', 0, 0)
    /\ ret' = NoRet
    /\ UNCHANGED <<tape, lines, expressIDToLine, ifcTypeToLineID, fault, log,
                   rel, open, tapeBlocks, api>>

(* GetSetArgument() at the current read cursor.                            *)
CallGetSetArgument(nd) ==
    /\ ~fault
    /\ LET r == GetSetArgument(tape, readOffset, nd)
       IN /\ readOffset' = r.cursor
          /\ fault' = (r.outcome # "ok")
          /\ op' = Op("GetSetArgument", 0, 0, readOffset, 0, 0)
          /\ ret' = Ret(r.outcome, NoLine, r.offsets, <<>>)
    /\ UNCHANGED <<tape, lines, expressIDToLine, ifcTypeToLineID, log, rel, open, tapeBlocks, api>>

NextCursor ==
    \/ CallMoveToLine(0)
    \/ \E i \in 0..MaxArgIndex, nd \in BOOLEAN : CallMoveToArgumentOffset(0, i, nd)
    \/ \E nd \in BOOLEAN : CallGetSetArgument(nd)

SpecCursor == InitCursor /\ [][NextCursor]_vars

----------------------------------------------------------------------------
(* Tapes of 2^32 bytes and more: data is pushed onto the empty tape, then  *)
(* lines are written and read back.                                        *)

(* IfcLoader::PushDataToTape(data, size), for data that adds 2^32 bytes of *)
(* value 0 to the tape.                                                    *)
CallPushDataToTape ==
    /\ ~fault
    /\ tape = <<>>
    /\ tapeBlocks < MaxBlocks
    /\ tapeBlocks' = tapeBlocks + 1
    /\ op' = Op("PushDataToTape", 0, 0, 0, 0, 0)
    /\ ret' = NoRet
    /\ UNCHANGED <<tape, readOffset, lines, expressIDToLine, ifcTypeToLineID, fault, log,
                   rel, open, api>>

WideHandles == 1..MaxHandle

NextWide ==
    \/ CallPushDataToTape
    \/ \E h \in WideHandles, l \in IndexLines : WriteLine(h, l.type, l.args)
    \/ \E h \in WideHandles : CallCopyTapeForExpressLine(h)
    \/ \E lineID \in 0..(MaxLines - 1) : CallMoveToLine(lineID)

SpecWide == Init /\ [][NextWide]_vars

----------------------------------------------------------------------------
(* IfcAPI, the script side: OpenModel and ExportFileAsIFC with their files *)
(* in the virtual file system, and WriteLine on a graph of line objects.   *)

StagingFile == "/filename"

ExportFile == "/export.ifc"

(* A property value that is a line object: it has an expressID.  bytes     *)
(* holds the identity of the object it refers to.                          *)
LINE_OBJECT == 10

LineObject(id) == [tag |-> LINE_OBJECT, bytes |-> <<id>>, elems |-> <<>>]

(* property.expressID !== undefined                                        *)
HasExpressID(v) == v.tag = LINE_OBJECT

ObjectOf(v) == v.bytes[1]

(* Array.isArray(property) && property.length > 0                          *)
IsArray(v) == v.tag = SET_BEGIN /\ Len(v.elems) > 0

(* { type: 5, value: expressID }                                           *)
Handle(expressID) == RefArg(expressID)

(* The places WriteLine looks at in object o, in the order of its loops:   *)
(* each property, and each element of a property that is a non-empty       *)
(* array.                                                                  *)
Positions(o) ==
    LET RECURSIVE From(_)
        From(k) ==
            IF k > Len(o.props) THEN <<>>
            ELSE (IF IsArray(o.props[k])
                  THEN [i \in 1..Len(o.props[k].elems) |-> [key |-> k, elem |-> i]]
                  ELSE <<[key |-> k, elem |-> 0]>>) \o From(k + 1)
    IN From(1)

ValueAt(o, pos) ==
    IF pos.elem = 0 THEN o.props[pos.key] ELSE o.props[pos.key].elems[pos.elem]

(* The loops run on from place i to the next place that holds a line       *)
(* object, or to the end, Len(Positions(o)) + 1.                           *)
Scan(o, i) ==
    LET ps == Positions(o)
        found == {j \in i..Len(ps) : HasExpressID(ValueAt(o, ps[j]))}
    IN IF found = {} THEN Len(ps) + 1 ELSE CHOOSE j \in found : \A k \in found : j <= k

OverwriteNothing(o, pos, v) == o

(* lineObject[propertyName] = v, or lineObject[propertyName][i] = v        *)
Overwrite(o, pos, v) ==
    IF pos.elem = 0 THEN [o EXCEPT !.props[pos.key] = v]
    ELSE [o EXCEPT !.props[pos.key].elems[pos.elem] = v]

(* lineObject.ToTape(): the arguments of the line, from its properties.    *)
ToTape(o) == o.props

(* A call of WriteLine that has not returned: its lineObject and the place *)
(* its loops have reached.                                                 *)
Frame(obj, at) == [obj |-> obj, at |-> at]

ObjectIds == {1, 2, 3}

(* The call stack of the script engine holds this many WriteLine calls;    *)
(* one more raises RangeError.  No graph without a cycle on ObjectIds      *)
(* nests deeper than the number of objects.                                *)
StackLimit == Cardinality(ObjectIds) + 1

(* What an object holds: no line object; one as a property; one in an      *)
(* array next to a handle; one as a property and one in an array.          *)
PropertyLists ==
    {<<StrArg(<<120>>)>>}
    \cup {<<LineObject(j)>> : j \in ObjectIds}
    \cup {<<SetOf(<<LineObject(j), Handle(9)>>)>> : j \in ObjectIds}
    \cup {<<LineObject(j), SetOf(<<LineObject(k)>>)>> : j \in ObjectIds, k \in ObjectIds}

(* The graphs handed to WriteLine: every object with its own expressID;    *)
(* chains, trees, shared objects and cycles are among them.                *)
LineObjectGraphs ==
    { [id \in ObjectIds |-> [expressID |-> id, type |-> id % 2, props |-> c[id]]] :
        c \in [ObjectIds -> PropertyLists] }

(* IfcAPI.WriteLine(modelID, lineObject) called by the application with    *)
(* object 1 of the graph: the call starts its loops.                       *)
WriteLineObject(objects) ==
    /\ ~fault
    /\ api.status = "idle"
    /\ api' = [api EXCEPT !.given = objects, !.objects = objects,
                          !.stack = <<Frame(1, Scan(objects[1], 1))>>,
                          !.status = "running", !.last = "WriteLine"]
    /\ UNCHANGED loader

(* this.WriteLine(modelID, property): the loops stand on a line object and *)
(* WriteLine calls itself on it.                                           *)
WriteLineNested ==
    /\ ~fault
    /\ api.status = "running"
    /\ LET f == api.stack[Len(api.stack)]
           o == api.objects[f.obj]
       IN /\ f.at <= Len(Positions(o))
          /\ LET child == ObjectOf(ValueAt(o, Positions(o)[f.at]))
             IN api' = IF Len(api.stack) >= StackLimit
                       THEN [api EXCEPT !.stack = <<>>, !.status = "RangeError"]
                       ELSE [api EXCEPT !.stack = Append(@, Frame(child,
                                                  Scan(api.objects[child], 1)))]
    /\ UNCHANGED loader

(* The loops of the innermost WriteLine are over: it builds rawLineData,   *)
(* calls WriteRawLineData, which writes the line to the model, and         *)
(* returns; the caller overwrites the reference with the handle and its    *)
(* loops run on.                                                           *)
WriteRawLineData ==
    /\ ~fault
    /\ api.status = "running"
    /\ LET f == api.stack[Len(api.stack)]
           o == api.objects[f.obj]
           rest == SubSeq(api.stack, 1, Len(api.stack) - 1)
       IN /\ f.at > Len(Positions(o))
          /\ LET w == WriteRaw(tapeBlocks, tape, Meta, o.expressID, o.type, ToTape(o), FALSE)
             IN /\ SetMeta(w.md)
                /\ tape' = w.tape
                /\ log' = Append(log, LogEntry("write", o.expressID, o.type, ToTape(o),
                                               w.start, w.end))
                /\ op' = Op("UpdateLineTape", o.expressID, o.type, w.start, w.end, 0)
                /\ ret' = NoRet
          /\ \E call \in {[object |-> f.obj, ID |-> o.expressID, type |-> o.type,
                            arguments |-> ToTape(o)]} :
               IF rest = <<>>
               THEN api' = [api EXCEPT !.calls = Append(@, call), !.stack = <<>>,
                                        !.status = "returned"]
               ELSE LET g == rest[Len(rest)]
                        parent == api.objects[g.obj]
                        written == Overwrite(parent, Positions(parent)[g.at],
                                             Handle(o.expressID))
                    IN api' = [api EXCEPT !.calls = Append(@, call),
                                          !.objects[g.obj] = written,
                                          !.stack = [rest EXCEPT ![Len(rest)].at =
                                                         Scan(written, g.at + 1)]]
    /\ UNCHANGED <<readOffset, rel, open, tapeBlocks>>

(* IfcAPI.OpenModel(data): FS_createDataFile('/', "filename", data), which *)
(* throws when the path exists; then the load, which throws out of         *)
(* OpenModel when the process aborts or crashes; then FS_unlink.           *)
OpenModel(file) ==
    /\ api.status # "running"
    /\ IF StagingFile \in api.files
       THEN /\ api' = [api EXCEPT !.last = "OpenModel: file exists"]
            /\ UNCHANGED loader
       ELSE /\ LoadFile(file)
            /\ api' = [api EXCEPT !.files = IF fault' THEN @ \cup {StagingFile}
                                            ELSE @ \ {StagingFile},
                                  !.last = IF fault' THEN "OpenModel: load failed"
                                           ELSE "OpenModel"]

(* IfcAPI.ExportFileAsIFC(modelID): the text of DumpAsIFC goes to          *)
(* /export.ifc, is read back and the file is unlinked.                     *)
ExportFileAsIFC ==
    /\ api.status # "running"
    /\ CallDumpAsIFC
    /\ api' = [api EXCEPT !.files = IF fault' THEN @ ELSE (@ \cup {ExportFile}) \ {ExportFile},
                          !.last = IF fault' THEN "ExportFileAsIFC: failed"
                                   ELSE "ExportFileAsIFC"]

(* A file that loads, and one whose IFCRELVOIDSELEMENT line has EMPTY for  *)
(* the opening element.                                                    *)
ApiFiles ==
    { <<[expressID |-> 1, type |-> 1, args |-> <<RefArg(305)>>]>>,
      <<[expressID |-> 1, type |-> IFCRELVOIDSELEMENT,
         args |-> Fill4 \o <<RefArg(10), EmptyArg>>]>> }

NextApi ==
    \/ \E f \in ApiFiles : OpenModel(f)
    \/ ExportFileAsIFC
    \/ api.status = "idle" /\ \E objects \in LineObjectGraphs : WriteLineObject(objects)
    \/ WriteLineNested
    \/ WriteRawLineData

SpecApi == Init /\ [][NextApi]_vars

----------------------------------------------------------------------------
(* Properties of the indices, checked under Spec.                          *)

(* The handles loaded or written so far.                                   *)
Written == {log[k].expressID : k \in 1..Len(log)}

(* The model started empty (CreateModel): every line came through writes.  *)
OnlyWrites == \A k \in 1..Len(log) : log[k].via = "write"

(* The state right after UpdateLineTape returned.                          *)
AfterWrite == op.name = "UpdateLineTape" /\ ~fault

(* C1: read-after-write.  Right after UpdateLineTape(H, T, start, end)     *)
(* with H >= 1, the record reached by GetLine(ExpressIDToLineID(H)) has    *)
(* expressID H, ifcType T, tapeOffset start and tapeEnd end, whether H was *)
(* new or already had a record (also one of another type code).            *)
C1_ReadAfterWrite ==
    (AfterWrite /\ op.expressID >= 1) =>
        \A junk \in 0..Len(lines) :
            LET r == GetLine(Meta, ExpressIDToLineID(Meta, op.expressID, junk))
            IN /\ r.expressID = op.expressID
               /\ r.ifcType = op.type
               /\ r.tapeOffset = op.start
               /\ r.tapeEnd = op.end

(* C2: starting from an empty model, the number of line records equals the *)
(* number of distinct handles written, and no two records carry the same   *)
(* handle (also when the handle that owns LineID 0 is written again).      *)
(* Stated for handles >= 1, where UpdateLineTape has no undefined          *)
(* behaviour.                                                              *)
C2_OneRecordPerHandle ==
    (OnlyWrites /\ 0 \notin Written) =>
        /\ Len(lines) = Cardinality(Written)
        /\ \A i, j \in 1..Len(lines) : lines[i].expressID = lines[j].expressID => i = j

(* C3: handle-map consistency.  Every entry i of the handle table that is  *)
(* not the NONE value 0, at handle H, is a valid LineID and                *)
(* lines[i].expressID = H.                                                 *)
C3_HandleMapConsistent ==
    \A h \in 0..(Len(expressIDToLine) - 1) :
        LET i == At(expressIDToLine, h)
        IN i # 0 => i < Len(lines) /\ At(lines, i).expressID = h

(* A handle with a non-NONE entry has just been written for the second     *)
(* time, in a model of several lines.                                      *)
C3_Witness ==
    /\ AfterWrite
    /\ Len(lines) >= 2
    /\ op.expressID < Len(expressIDToLine)
    /\ At(expressIDToLine, op.expressID) # 0
    /\ Cardinality({k \in 1..Len(log) : log[k].expressID = op.expressID}) >= 2

(* C4: type-index consistency.  Every LineID i listed in                   *)
(* ifcTypeToLineID[T] is a valid index into lines and lines[i].ifcType = T,*)
(* after new handles and after rewrites with the same or another type.     *)
C4_TypeIndexConsistent ==
    \A t \in IfcTypes :
        \A k \in 1..Len(ifcTypeToLineID[t]) :
            LET i == ifcTypeToLineID[t][k]
            IN i < Len(lines) /\ At(lines, i).ifcType = t

(* An existing record has just been rewritten with another type code than  *)
(* the one it is indexed under.                                            *)
C4_Witness ==
    /\ AfterWrite
    /\ Len(lines) < Len(log)
    /\ \E i \in 1..Len(lines) :
         /\ lines[i].expressID = op.expressID
         /\ lines[i].tapeOffset = op.start
         /\ lines[i].ifcType # op.type
         /\ (i - 1) \in Range(ifcTypeToLineID[lines[i].ifcType])

(* The handles of the records of type t, in LineID (insertion) order.      *)
HandlesOfType(t) ==
    LET recs == SelectSeq(lines, LAMBDA l : l.ifcType = t)
    IN [k \in 1..Len(recs) |-> recs[k].expressID]

NoDuplicates(q) == \A i, j \in 1..Len(q) : q[i] = q[j] => i = j

(* C5: GetExpressIDsWithType(T) returns exactly the handles of the line    *)
(* records whose type is T, each handle once, in insertion order.  Stated  *)
(* for handles >= 1, where UpdateLineTape has no undefined behaviour.      *)
C5_ExpressIDsWithType ==
    (op.name = "GetExpressIDsWithType" /\ 0 \notin Written) =>
        /\ ret.list = HandlesOfType(op.type)
        /\ NoDuplicates(ret.list)

(* C6: looking up a handle that was never loaded or written yields the     *)
(* UnknownLine outcome: no record of another line, no read outside the     *)
(* table.                                                                  *)
C6_UnknownLine ==
    (op.name = "CopyTapeForExpressLine" /\ op.expressID \notin Written) =>
        ret.outcome = "UnknownLine"

----------------------------------------------------------------------------
(* Properties of the argument cursor, checked under SpecCursor.  The       *)
(* expected offsets are computed from the argument values of the line, not *)
(* from the tape.                                                          *)

RECURSIVE ElemOffsets(_, _)
(* The offsets of the elements elems laid out from offset base on.         *)
ElemOffsets(base, elems) ==
    IF elems = <<>> THEN <<>>
    ELSE <<base>> \o ElemOffsets(base + Len(Emit(Head(elems))), Tail(elems))

RECURSIVE SetsIn(_, _)
(* Every set in value a, which starts at offset base: where its SET_BEGIN  *)
(* is, and its elements.                                                   *)
SetsIn(base, a) ==
    IF a.tag # SET_BEGIN THEN {}
    ELSE {[at |-> base, elems |-> a.elems]}
         \cup UNION { SetsIn(ElemOffsets(base + 1, a.elems)[k], a.elems[k]) :
                        k \in 1..Len(a.elems) }

(* The line on the tape, and the offsets of its top-level arguments.       *)
CursorLine == log[1]

TopLevelOffsets == ElemOffsets(CursorLine.setBegin + 1, CursorLine.args)

RECURSIVE Readable(_)
(* The scalar tokens in value a, at any depth, are of the tags whose       *)
(* payload GetSetArgument reads: REAL, REF, STRING, LABEL.                 *)
Readable(a) ==
    IF a.tag = SET_BEGIN THEN \A k \in 1..Len(a.elems) : Readable(a.elems[k])
    ELSE a.tag \in {REAL, REF, STRING_, LABEL}

(* C8: GetSetArgument called with the cursor on the SET_BEGIN of a set     *)
(* with balanced nesting returns one offset per top-level element of that  *)
(* set, in order, and nothing else: a nested set is one element and its    *)
(* elements are not reported.  Stated for sets whose scalar tokens are     *)
(* REAL, REF, STRING or LABEL, which GetSetArgument reads without assert.  *)
C8_TopLevelElements ==
    op.name = "GetSetArgument" =>
        \A s \in SetsIn(CursorLine.setBegin, SetOf(CursorLine.args)) :
            (s.at = op.start /\ Readable(SetOf(s.elems))) =>
                /\ ret.outcome = "ok"
                /\ ret.list = ElemOffsets(s.at + 1, s.elems)

(* C9: for a well-formed line with n top-level arguments (a nested set is  *)
(* one argument) and 0 <= i < n, MoveToArgumentOffset(line, i) returns     *)
(* with the cursor on the tag byte of the i-th top-level argument, whether *)
(* tapeOffset is at the outer SET_BEGIN or at the leading REF.             *)
C9_ArgumentOffset ==
    (op.name = "MoveToArgumentOffset" /\ op.arg < Len(CursorLine.args)) =>
        /\ ret.outcome = "ok"
        /\ readOffset = TopLevelOffsets[op.arg + 1]

(* The cursor has been moved past a non-empty nested set to a later        *)
(* argument of a line whose tapeOffset is at its leading REF.              *)
C9_Witness ==
    /\ op.name = "MoveToArgumentOffset"
    /\ op.arg >= 1
    /\ op.arg < Len(CursorLine.args)
    /\ CursorLine.via = "write"
    /\ At(tape, op.start) = REF
    /\ CursorLine.args[1].tag = SET_BEGIN
    /\ Len(CursorLine.args[1].elems) >= 2
    /\ ret.outcome = "ok"

(* C10: for a line with n top-level arguments and i >= n,                  *)
(* MoveToArgumentOffset(line, i) fails with ArgumentOutOfRange instead of  *)
(* returning normally.                                                     *)
C10_ArgumentOutOfRange ==
    (op.name = "MoveToArgumentOffset" /\ op.arg >= Len(CursorLine.args)) =>
        ret.outcome = "ArgumentOutOfRange"

----------------------------------------------------------------------------
(* Properties of the passes of LoadFile, checked under SpecRel.  What a    *)
(* map should hold is computed from the lines of the file (log), not from  *)
(* the tape.                                                               *)

(* LoadFile has returned.                                                  *)
Loaded == op.name = "LoadFile" /\ ~fault

(* The handle a REF value carries.                                         *)
RefValue(a) == U32At(a.bytes, 0)

IsRef(a) == a.tag = REF

IsRefSet(a) == a.tag = SET_BEGIN /\ \A k \in 1..Len(a.elems) : IsRef(a.elems[k])

RefValues(a) == [k \in 1..Len(a.elems) |-> RefValue(a.elems[k])]

(* The lines of the file of type code t, in file order.                    *)
FileLinesOfType(t) == SelectSeq(log, LAMBDA e : e.type = t)

(* An IFCRELVOIDSELEMENT line with REFs at arguments 4 and 5.              *)
WellFormedRelVoids(e) ==
    Len(e.args) >= 6 /\ IsRef(e.args[5]) /\ IsRef(e.args[6])

RECURSIVE ExpectedRelVoids(_)
ExpectedRelVoids(es) ==
    IF es = <<>> THEN EmptyMap
    ELSE LET e == es[Len(es)]
             m == ExpectedRelVoids(SubSeq(es, 1, Len(es) - 1))
         IN IF ~WellFormedRelVoids(e) THEN m
            ELSE IF RefValue(e.args[5]) \in DOMAIN m
                 THEN [m EXCEPT ![RefValue(e.args[5])] = Append(@, RefValue(e.args[6]))]
                 ELSE m @@ (RefValue(e.args[5]) :> <<RefValue(e.args[6])>>)

(* C11: after load, for every building element B, relVoids[B] is exactly   *)
(* the sequence of opening handles of the IFCRELVOIDSELEMENT lines whose   *)
(* argument 4 is REF B, in the file (LineID) order of those lines; a       *)
(* handle no such line names has no entry.  Stated for files whose         *)
(* IFCRELVOIDSELEMENT lines carry REFs at arguments 4 and 5.               *)
C11_RelVoids ==
    (Loaded /\ \A k \in 1..Len(log) :
                  log[k].type = IFCRELVOIDSELEMENT => WellFormedRelVoids(log[k])) =>
        relVoids = ExpectedRelVoids(FileLinesOfType(IFCRELVOIDSELEMENT))

(* Two lines link #10 to #20 and then to #21, the first line of the file   *)
(* carrying the larger handle.                                             *)
C11_Witness ==
    /\ Loaded
    /\ Len(log) = 2
    /\ log[1].expressID > log[2].expressID
    /\ 10 \in DOMAIN relVoids
    /\ relVoids[10] = <<20, 21>>

RECURSIVE Flatten(_)
Flatten(ss) == IF ss = <<>> THEN <<>> ELSE Head(ss) \o Flatten(Tail(ss))

(* The map a sequence of <<key, value>> pairs builds: under each key, its  *)
(* values in the order of the pairs.                                       *)
Collect(pairs) ==
    [key \in {pairs[i][1] : i \in 1..Len(pairs)} |->
        LET sel == SelectSeq(pairs, LAMBDA q : q[1] = key)
        IN [i \in 1..Len(sel) |-> sel[i][2]]]

(* The entries the well-formed lines of type t contribute, in file order;  *)
(* Entries(e) are the <<key, value>> pairs of one line.                    *)
ExpectedMap(t, Entries(_)) ==
    LET es == FileLinesOfType(t)
    IN Collect(Flatten([k \in 1..Len(es) |-> Entries(es[k])]))

AggregateEntries(e) ==
    IF Len(e.args) >= 6 /\ IsRef(e.args[5]) /\ IsRefSet(e.args[6])
    THEN [k \in 1..Len(e.args[6].elems) |-> <<RefValue(e.args[5]), RefValues(e.args[6])[k]>>]
    ELSE <<>>

StyledItemEntries(e) ==
    IF Len(e.args) >= 2 /\ IsRef(e.args[1]) /\ IsRefSet(e.args[2])
    THEN [k \in 1..Len(e.args[2].elems) |->
             <<RefValue(e.args[1]), <<e.expressID, RefValues(e.args[2])[k]>> >>]
    ELSE <<>>

RelMaterialEntries(e) ==
    IF Len(e.args) >= 6 /\ IsRefSet(e.args[5]) /\ IsRef(e.args[6])
    THEN [k \in 1..Len(e.args[5].elems) |->
             <<RefValues(e.args[5])[k], <<e.expressID, RefValue(e.args[6])>> >>]
    ELSE <<>>

MaterialDefinitionEntries(e) ==
    IF Len(e.args) >= 4 /\ IsRefSet(e.args[3]) /\ IsRef(e.args[4])
    THEN [k \in 1..Len(e.args[3].elems) |->
             <<RefValue(e.args[4]), <<e.expressID, RefValues(e.args[3])[k]>> >>]
    ELSE <<>>

(* Argument 0 of every styled item that is a REF names a handle inside the *)
(* handle table, so that its lookup reads no memory outside the table.     *)
StyledItemsResolve ==
    \A k \in 1..Len(log) :
        (log[k].type = IFCSTYLEDITEM /\ IsRef(log[k].args[1])) =>
            RefValue(log[k].args[1]) < Len(expressIDToLine)

(* C12: the relationship passes are lenient.  A relating line that carries *)
(* another tag than the expected one at an expected argument (EMPTY where  *)
(* a REF is expected) contributes no entry to any map, the load goes on,   *)
(* and the entries of all well-formed lines are still added: after         *)
(* LoadFile every map holds exactly the entries of the well-formed lines.  *)
C12_LenientPasses ==
    (op.name = "LoadFile" /\ StyledItemsResolve) =>
        /\ ~fault
        /\ relVoids = ExpectedRelVoids(FileLinesOfType(IFCRELVOIDSELEMENT))
        /\ relAggregates = ExpectedMap(IFCRELAGGREGATES, AggregateEntries)
        /\ styledItems = ExpectedMap(IFCSTYLEDITEM, StyledItemEntries)
        /\ relMaterials = ExpectedMap(IFCRELASSOCIATESMATERIAL, RelMaterialEntries)
        /\ materialDefinitions =
              ExpectedMap(IFCMATERIALDEFINITIONREPRESENTATION, MaterialDefinitionEntries)

(* C20: for every IFCSTYLEDITEM line S whose argument 0 is REF R and whose *)
(* argument 1 is a set of REFs A1..Ak, PopulateStyledItemMap appends       *)
(* (S, A1), ..., (S, Ak) to styledItems[R] in that order, the set being    *)
(* read from argument 1 of S itself; a line whose argument 0 is not a REF  *)
(* adds nothing; entries of several styled items with the same R appear in *)
(* file order of the styled-item lines.                                    *)
C20_StyledItems ==
    Loaded => styledItems = ExpectedMap(IFCSTYLEDITEM, StyledItemEntries)

(* Two styled items of the same representation item, the first in the file *)
(* carrying the larger handle and a set of two style assignments.          *)
C20_Witness ==
    /\ Loaded
    /\ Len(log) = 2
    /\ log[1].expressID = 2
    /\ 1 \in DOMAIN styledItems
    /\ styledItems[1] = << <<2, 40>>, <<2, 41>>, <<1, 42>> >>

----------------------------------------------------------------------------
(* Properties of ReadLinearScalingFactor, checked under SpecUnits.         *)

(* The line of the file with handle h.                                     *)
FileLineOf(h) == CHOOSE e \in Range(log) : e.expressID = h

(* The lines the set of the units assignment refers to, in set order; the  *)
(* assignment is the line argument 8 of the project refers to.             *)
UnitsOfProject(project) ==
    LET assignment == FileLineOf(RefValue(project.args[9]))
        set == assignment.args[1]
    IN [k \in 1..Len(set.elems) |-> FileLineOf(RefValue(set.elems[k]))]

(* An IFCSIUNIT with unit-type LENGTHUNIT and unit-name METRE.             *)
IsMetreUnit(e) ==
    /\ e.type = IFCSIUNIT
    /\ e.args[2] = EnumArg(Chars_LENGTHUNIT)
    /\ e.args[4] = EnumArg(Chars_METRE)

(* The prefix of a unit line: the text of the enum at argument 2, or none. *)
PrefixOf(e) == IF e.args[3].tag = ENUM THEN Tail(e.args[3].bytes) ELSE <<>>

(* The SI prefixes and their multipliers, as powers of ten.                *)
PrefixTable ==
    { <<Chars_EXA, 18>>, <<Chars_PETA, 15>>, <<Chars_TERA, 12>>, <<Chars_GIGA, 9>>,
      <<Chars_MEGA, 6>>, <<Chars_KILO, 3>>, <<Chars_HECTO, 2>>, <<Chars_DECA, 1>>,
      <<Chars_DECI, -1>>, <<Chars_CENTI, -2>>, <<Chars_MILLI, -3>>, <<Chars_MICRO, -6>>,
      <<Chars_NANO, -9>>, <<Chars_PICO, -12>>, <<Chars_FEMTO, -15>>, <<Chars_ATTO, -18>> }

TabledExponent(prefix) ==
    IF prefix = <<>> THEN 0 ELSE (CHOOSE q \in PrefixTable : q[1] = prefix)[2]

(* C13: for a model with exactly one IFCPROJECT whose argument 8 refers to *)
(* a units assignment, linearScalingFactor is the tabled multiplier of     *)
(* prefix P when the set of the assignment contains an IFCSIUNIT with      *)
(* unit-type LENGTHUNIT, prefix P and unit-name METRE; IFCSIUNIT lines of  *)
(* another unit-type and lines that are not IFCSIUNIT never change it,     *)
(* wherever they stand in the set: without a metre unit in the set the     *)
(* factor keeps its default 1.  Stated for sets with at most one metre     *)
(* unit.                                                                   *)
C13_LinearScalingFactor ==
    (Loaded /\ Len(FileLinesOfType(IFCPROJECT)) = 1) =>
        LET units == UnitsOfProject(FileLinesOfType(IFCPROJECT)[1])
            metres == SelectSeq(units, IsMetreUnit)
        IN /\ Len(metres) = 1 => linearScalingFactor = TabledExponent(PrefixOf(metres[1]))
           /\ Len(metres) = 0 => linearScalingFactor = 0

(* One project; the set holds a line that is not an IFCSIUNIT but reads    *)
(* like a millimetre unit and, after it, the decametre unit: the factor is *)
(* 10.                                                                     *)
C13_Witness ==
    /\ Loaded
    /\ Len(FileLinesOfType(IFCPROJECT)) = 1
    /\ LET units == UnitsOfProject(FileLinesOfType(IFCPROJECT)[1])
       IN /\ Len(units) = 2
          /\ units[1].type # IFCSIUNIT
          /\ PrefixOf(units[1]) = Chars_MILLI
          /\ IsMetreUnit(units[2])
          /\ PrefixOf(units[2]) = Chars_DECA
    /\ linearScalingFactor = 1

(* C14: when the number of IFCPROJECT lines is not exactly 1 (none, or two *)
(* or more), ReadLinearScalingFactor returns without reading any line: the *)
(* load completes, the cursor is where the relationship passes left it and *)
(* linearScalingFactor keeps its default 1.0.                              *)
C14_ProjectCountNotOne ==
    (op.name = "LoadFile" /\ Len(FileLinesOfType(IFCPROJECT)) # 1) =>
        /\ ~fault
        /\ linearScalingFactor = 0
        /\ \A nd \in BOOLEAN :
              readOffset = RelationshipPasses(tape, Meta, PassState(Len(tape)), nd).cursor

(* Two projects refer to an assignment whose set holds the millimetre      *)
(* unit, and the factor is still 1.                                        *)
C14_Witness ==
    /\ Loaded
    /\ Len(FileLinesOfType(IFCPROJECT)) = 2
    /\ \E k \in 1..Len(log) : IsMetreUnit(log[k]) /\ PrefixOf(log[k]) = Chars_MILLI
    /\ LET units == UnitsOfProject(FileLinesOfType(IFCPROJECT)[1])
       IN Len(units) = 1 /\ IsMetreUnit(units[1]) /\ PrefixOf(units[1]) = Chars_MILLI
    /\ linearScalingFactor = 0

----------------------------------------------------------------------------
(* Properties of the serializer, checked under SpecDump.                   *)

(* DumpAsIFC has returned its text in ret.bytes.                           *)
DumpedNow == op.name = "DumpAsIFC" /\ ~fault

(* The tokens of the records' lines, in LineID order.                      *)
RecordTokens == Flatten([k \in 1..Len(lines) |-> Slice(tape, lines[k].tapeOffset, lines[k].tapeEnd)])

(* C15: serializer round trip.  For well-formed lines on the tape (REF,    *)
(* LABEL, balanced sets, STRING / ENUM / REF / EMPTY / UNKNOWN arguments,  *)
(* also a STRING whose value holds a single quote), tokenizing the text    *)
(* DumpAsIFC emits yields the same token sequence as the original lines.   *)
(* Stated for models built by writes, whose records span the whole line    *)
(* from its leading REF.                                                   *)
C15_RoundTrip ==
    (DumpedNow /\ OnlyWrites) =>
        /\ Tokenize(ret.bytes).ok
        /\ Tokenize(ret.bytes).tape = RecordTokens

(* The text between the header and the footer.                             *)
DataText == SubSeq(ret.bytes, Len(HeaderText) + 1, Len(ret.bytes) - Len(FooterText))

(* The line a record's range holds: the one that was put on the tape with  *)
(* its leading REF (a write) or its outer SET_BEGIN (a load) at tapeOffset.*)
EntryOf(line) ==
    CHOOSE e \in {log[k] : k \in 1..Len(log)} :
        \/ e.via = "write" /\ e.start = line.tapeOffset
        \/ e.via = "load" /\ e.setBegin = line.tapeOffset

RECURSIVE Render(_)
(* The STEP text of one value, written from the value and not the tape.    *)
Render(a) ==
    LET RECURSIVE List(_, _)
        List(es, first) ==
            IF es = <<>> THEN <<>>
            ELSE (IF first THEN <<>> ELSE <<44>>) \o Render(Head(es))
                 \o (IF Head(es).tag = LABEL /\ Len(es) > 1
                     THEN Render(es[2]) \o List(Tail(Tail(es)), FALSE)
                     ELSE List(Tail(es), FALSE))
    IN CASE a.tag = SET_BEGIN -> <<40>> \o List(a.elems, TRUE) \o <<41>>
         [] a.tag = REF -> <<35>> \o Digits(U32At(a.bytes, 0))
         [] a.tag = STRING_ -> <<39>> \o Tail(a.bytes) \o <<39>>
         [] a.tag = ENUM -> <<46>> \o Tail(a.bytes) \o <<46>>
         [] a.tag = LABEL -> Tail(a.bytes)
         [] a.tag = EMPTY -> <<36>>
         [] a.tag = UNKNOWN -> <<42>>
         [] a.tag = REAL -> <<49>>

RECURSIVE Gaps(_)
(* The number of places between two consecutive sibling elements in a list *)
(* of values and, nested, in its sets; a LABEL and the parenthesised value *)
(* after it are one element.                                               *)
Gaps(es) ==
    LET labelled == {k \in 1..Len(es) - 1 : es[k].tag = LABEL}
        elements == Len(es) - Cardinality(labelled)
        RECURSIVE Inner(_)
        Inner(k) == IF k = 0 THEN 0 ELSE Gaps(es[k].elems) + Inner(k - 1)
    IN (IF elements = 0 THEN 0 ELSE elements - 1) + Inner(Len(es))

RECURSIVE GapsOfRecords(_)
GapsOfRecords(k) == IF k = 0 THEN 0 ELSE Gaps(EntryOf(lines[k]).args) + GapsOfRecords(k - 1)

Commas(d) == {i \in 1..Len(d) : d[i] = 44}

(* The values on the tapes of SpecDump hold no comma, parenthesis or       *)
(* semicolon inside a string, so every such character of the text is       *)
(* punctuation.                                                            *)

(* C18: in the text DumpAsIFC emits for a line, a comma appears exactly    *)
(* between two consecutive sibling elements of the same set: never         *)
(* directly after '(', never directly before ')' or ';', never next to     *)
(* another comma, never between a LABEL and the '(' that follows it, never *)
(* before the outermost '(' of the line, and as many commas as there are   *)
(* places between siblings.                                                *)
C18_Commas ==
    DumpedNow =>
        LET d == DataText
        IN /\ \A i \in Commas(d) :
                 /\ i > 1 /\ i < Len(d)
                 /\ d[i - 1] \notin {40, 44}
                 /\ d[i + 1] \notin {41, 44, 59}
                 /\ ~(d[i - 1] \in Letters /\ d[i + 1] = 40)
                 /\ \E j \in 1..i - 1 : d[j] = 40 /\ \A k \in j..i : d[k] # 10
           /\ Cardinality(Commas(d)) = GapsOfRecords(Len(lines))

(* A dump with a LABEL followed by its parenthesised value, a nested set   *)
(* and three or more commas.                                               *)
C18_Witness ==
    /\ DumpedNow
    /\ Cardinality(Commas(DataText)) >= 3
    /\ \E i \in 1..Len(DataText) - 1 : DataText[i] = 76 /\ DataText[i + 1] = 40
    /\ \E i \in 1..Len(DataText) - 1 : DataText[i] = 40 /\ DataText[i + 1] = 40

(* The statement of a record as the claim words it: #H= the type label,    *)
(* the argument list, ';' and the newline of std::endl.                    *)
Statement(e) ==
    <<35>> \o Digits(e.expressID) \o <<61>> \o Render(TypeLabel(e.type))
           \o Render(SetOf(e.args)) \o <<59, 10>>

(* The statement of a record whose tapeOffset is the outer SET_BEGIN: the  *)
(* argument list only.                                                     *)
StatementFromSetBegin(e) == Render(SetOf(e.args)) \o <<59, 10>>

StartsAtRef(line) == At(tape, line.tapeOffset) = REF

----------------------------------------------------------------------------
(* The lifecycle of a loader, checked under Spec.                          *)

(* C17: a loader reports IsOpen() = true in every state between the        *)
(* completion of its creation or load and its close: no sequence of        *)
(* LoadFile, write and read operations leaves a live loader reporting      *)
(* false.  No operation of the model closes the loader, so every state in  *)
(* which the process is alive lies between creation and close.             *)
C17_IsOpen == ~fault => IsOpen(open)

----------------------------------------------------------------------------
(* Offsets on tapes of 2^32 bytes and more, checked under SpecWide.        *)

(* Where the line of log entry e truly starts and ends on the tape: the    *)
(* lines follow the pushed blocks.                                         *)
TrueStart(e) == Offset64(tapeBlocks, e.start)

TrueEnd(e) == Offset64(tapeBlocks, e.end)

(* C16: tape offsets are not truncated to 32 bits.  For a line written     *)
(* when the tape's total size is 2^32 or more, the recorded tapeOffset and *)
(* tapeEnd equal the true start and end offsets; moving the cursor to the  *)
(* line addresses the true offset, and CopyTapeForExpressLine copies the   *)
(* line's own tokens.                                                      *)
C16_WideOffsets ==
    (tapeBlocks >= 1 /\ ~fault) =>
        /\ \A k \in 1..Len(lines) :
               /\ FromUint32(lines[k].tapeOffset) = TrueStart(EntryOf(lines[k]))
               /\ FromUint32(lines[k].tapeEnd) = TrueEnd(EntryOf(lines[k]))
        /\ op.name = "MoveToLine" =>
               \E k \in 1..Len(lines) :
                   /\ lines[k].expressID = op.expressID
                   /\ FromUint32(readOffset) = TrueStart(EntryOf(lines[k]))
        /\ (op.name = "CopyTapeForExpressLine" /\ ret.line.expressID = op.expressID) =>
               LET e == EntryOf(ret.line)
               IN ret.bytes = LineTokens(e.expressID, e.type, e.args)

----------------------------------------------------------------------------
(* The frame of a write, checked under Spec.                               *)

(* Handle g has a record: its table entry leads to the record that carries *)
(* g.                                                                      *)
HasRecord(table, recs, g) ==
    /\ g < Len(table)
    /\ At(table, g) < Len(recs)
    /\ At(recs, At(table, g)).expressID = g

(* The step is a completed UpdateLineTape for handle h >= 1.               *)
WriteStep(h) ==
    /\ op'.name = "UpdateLineTape"
    /\ op'.expressID = h
    /\ h >= 1
    /\ Len(log') = Len(log) + 1
    /\ ~fault'

(* C22: frame condition of a write.  UpdateLineTape for a handle H leaves  *)
(* unchanged, for every other handle G that already has a record, the      *)
(* table entry of G and G's record, and G stays inside the table; also     *)
(* when H is smaller than existing handles and not yet mapped.             *)
C22_WriteFrame ==
    [][\A h \in Handles, g \in Handles :
          (g # h /\ WriteStep(h) /\ HasRecord(expressIDToLine, lines, g)) =>
              /\ g < Len(expressIDToLine')
              /\ At(expressIDToLine', g) = At(expressIDToLine, g)
              /\ At(lines', At(expressIDToLine, g)) = At(lines, At(expressIDToLine, g))]_vars

----------------------------------------------------------------------------
(* GetSetArgument over the closed tag set, checked under SpecCursor.       *)

(* C23: for a balanced set whose elements may carry any value tag          *)
(* (UNKNOWN, STRING, LABEL, ENUM, REAL, REF, EMPTY), GetSetArgument        *)
(* reaches no failed assertion, skips exactly the payload of each element  *)
(* and ends with the cursor on the byte just past the SET_END that matches *)
(* the opening SET_BEGIN; for an empty set it returns the empty sequence.  *)
C23_SetCursor ==
    op.name = "GetSetArgument" =>
        \A s \in SetsIn(CursorLine.setBegin, SetOf(CursorLine.args)) :
            s.at = op.start =>
                /\ ret.outcome = "ok"
                /\ readOffset = s.at + Len(Emit(SetOf(s.elems)))
                /\ s.elems = <<>> => ret.list = <<>>

----------------------------------------------------------------------------
(* IfcAPI.WriteLine on graphs of line objects, checked under SpecApi.      *)

(* The places of object o that hold a line object, in the graph objs.      *)
ObjectSlots(objs, o) ==
    {j \in 1..Len(Positions(objs[o])) :
        HasExpressID(ValueAt(objs[o], Positions(objs[o])[j]))}

NestedAt(objs, o, j) == ObjectOf(ValueAt(objs[o], Positions(objs[o])[j]))

Nested(objs, o) == {NestedAt(objs, o, j) : j \in ObjectSlots(objs, o)}

RECURSIVE Closure(_, _, _)
(* The objects reached from the set from in at most n steps, from included.*)
Closure(objs, from, n) ==
    IF n = 0 THEN from
    ELSE Closure(objs, from \cup UNION {Nested(objs, o) : o \in from}, n - 1)

ReachableFrom(objs, from) == Closure(objs, from, Cardinality(ObjectIds))

(* No object of the graph handed over, reachable from object 1, is         *)
(* reachable from itself.                                                  *)
Acyclic(objs) ==
    \A o \in ReachableFrom(objs, {1}) : o \notin ReachableFrom(objs, Nested(objs, o))

RECURSIVE SlotCount(_, _)
SlotCount(objs, os) ==
    IF os = {} THEN 0
    ELSE LET o == CHOOSE x \in os : TRUE
         IN Cardinality(ObjectSlots(objs, o)) + SlotCount(objs, os \ {o})

(* The object occurrences of the graph: the object handed to WriteLine and *)
(* every place of a reachable object that holds a line object.             *)
Occurrences(objs) == 1 + SlotCount(objs, ReachableFrom(objs, {1}))

WriteLineRan == api.given # <<>>

(* C21: on an acyclic graph, WriteLine makes the raw write of every nested *)
(* object before the raw write of the object that contains it; when a      *)
(* parent's WriteRawLineData is issued, each nested object in it has been  *)
(* replaced by the handle { type: 5, value: child expressID }; and exactly *)
(* one WriteRawLineData call is made per object occurrence.                *)
C21_NestedFirst ==
    (WriteLineRan /\ Acyclic(api.given)) =>
        /\ api.status # "RangeError"
        /\ \A c \in 1..Len(api.calls) :
               \A j \in ObjectSlots(api.given, api.calls[c].object) :
                   LET parent == api.calls[c].object
                       child == NestedAt(api.given, parent, j)
                   IN /\ \E b \in 1..(c - 1) : api.calls[b].object = child
                      /\ ValueAt([props |-> api.calls[c].arguments],
                                 Positions(api.given[parent])[j])
                            = Handle(api.given[child].expressID)
        /\ api.status = "returned" => Len(api.calls) = Occurrences(api.given)

(* WriteLine has returned on an acyclic graph in which an object is held   *)
(* by two parents, one of them holding it in an array, and was written     *)
(* once per occurrence.                                                    *)
C21_Witness ==
    /\ WriteLineRan
    /\ Acyclic(api.given)
    /\ api.status = "returned"
    /\ Len(api.calls) >= 5
    /\ \E o \in ObjectIds \ {1} :
          /\ o \in Nested(api.given, 1)
          /\ \E q \in Nested(api.given, 1) \ {o} : o \in Nested(api.given, q)
          /\ Cardinality({c \in 1..Len(api.calls) : api.calls[c].object = o}) >= 2

(* C24: WriteLine terminates for every finite graph of line objects, also  *)
(* when an object is reachable from itself and when an object is shared by *)
(* several parents: the chain of nested calls never outgrows the call      *)
(* stack, and the number of WriteRawLineData calls is bounded by the       *)
(* number of object occurrences.                                           *)
C24_Terminates ==
    WriteLineRan =>
        /\ api.status # "RangeError"
        /\ Len(api.calls) <= Occurrences(api.given)

----------------------------------------------------------------------------
(* The files of IfcAPI in the virtual file system, checked under SpecApi.  *)

(* C25: after every OpenModel call, whether the load returns a model       *)
(* handle or fails, /filename no longer exists, so that the next OpenModel *)
(* can create it; and /export.ifc does not exist after ExportFileAsIFC     *)
(* returns.                                                                *)
C25_StagingFilesRemoved ==
    /\ api.last \in {"OpenModel", "OpenModel: load failed", "OpenModel: file exists"} =>
           StagingFile \notin api.files
    /\ api.last = "ExportFileAsIFC" => ExportFile \notin api.files

====
